---- MODULE Spec2Model ----
(***************************************************************************)
(* State-machine model of the blobstore crate (crates/blobstore/src):      *)
(* the EmbeddedStorage engine (storage.rs), the range validation of        *)
(* types.rs, the Container handle (container.rs) and the OutgoingValue     *)
(* staging buffer (values.rs).                                             *)
(*                                                                         *)
(* Every engine operation is a pure operator from the HashMap of           *)
(* containers (and the call's arguments) to a record                       *)
(*     [res |-> the BlobstoreResult, st |-> the HashMap afterwards]       *)
(* and an action applies it in one step, which is the code's critical      *)
(* section under the engine-wide RwLock.  move_object takes the lock twice *)
(* and is therefore two steps.                                             *)
(***************************************************************************)
EXTENDS Integers, Sequences, FiniteSets, TLC

VARIABLES
    containers,  \* EmbeddedStorage.containers : HashMap<ContainerName, StoredContainer>
    last,        \* the call that returned last: [op, args, res]
    mv,          \* the thread inside move_object: its position, arguments and result
    ov,          \* one OutgoingValue: [data, finished]
    wr,          \* per writer thread: position inside OutgoingValueStream::write
    wd,          \* the thread inside Container::write_data / OutgoingValue::get_data
    hist,        \* what the calls on the OutgoingValue have done so far
    lock,        \* the engine's RwLock: exclusive holders, shared holders, waiters
    th,          \* per engine thread: the call it is in and its position in it
    cur,         \* one StreamObjectNames: [objects, position] and what was read from it
    inc,         \* one IncomingValueStream: [data, position, chunk_size] and what was read
    hd,          \* the Container handles: the container name each is bound to
    fd           \* the thread inside the facade's delete_container

vars == <<containers, last, mv, ov, wr, wd, hist, lock, th, cur, inc, hd, fd>>
engineVars == <<containers, mv>>
valueVars == <<ov, wr, wd, hist>>
lockVars == <<lock, th>>
frontVars == <<cur, inc, hd, fd>>

(***************************************************************************)
(* Bounds and input sets.                                                  *)
(***************************************************************************)
\* u64 is scaled down to WordBits bits; offsets wrap at 2^WordBits.
WordBits == 3
U64_MAX == 2^WordBits - 1

\* The model's strings: container names are strings, object names are
\* sequences of character codes (so that they can be ordered).
ContainerNames == {"c1", "c2"}
ObjectNames == {<<1>>, <<2>>}
\* Byte sequences stored by put_object_data.
Payloads == {<<>>, <<7, 8>>}
\* Values current_timestamp() may return (SystemTime::now is not monotonic).
Timestamps == {1, 2}
\* The one value it returns where the time of a call is of no interest.
MoveTimestamps == {1}
\* The two ways the crate can be built: with and without overflow checks.
Builds == {"debug", "release"}

ObjectIds == [container : ContainerNames, object : ObjectNames]

(***************************************************************************)
(* Results, options and HashMap helpers.                                   *)
(***************************************************************************)
Unit == <<>>
Ok(v) == [kind |-> "Ok", val |-> v]
\* Ok(bool) and Ok(metadata): the kind carries the type of the payload
OkBool(b) == [kind |-> "Ok(bool)", val |-> b]
OkMeta(m) == [kind |-> "Ok(metadata)", val |-> m]
OkNames(ns) == [kind |-> "Ok(names)", val |-> ns]
\* Ok((Vec<ObjectName>, bool)), Ok((u64, bool)) and Ok(Option<Vec<u8>>)
OkBatch(items, end) == [kind |-> "Ok(batch)", val |-> [items |-> items, end |-> end]]
OkSkipped(n, end) == [kind |-> "Ok(skipped)", val |-> [n |-> n, end |-> end]]
OkChunk(opt) == [kind |-> "Ok(chunk)", val |-> opt]
OkName(opt) == [kind |-> "Ok(name)", val |-> opt]
Err(k, v) == [kind |-> k, val |-> v]
\* The call did not return: the thread panicked.
Panic == [kind |-> "Panic", val |-> <<>>]
IsOk(r) == r.kind \in {"Ok", "Ok(bool)", "Ok(metadata)", "Ok(names)",
                      "Ok(batch)", "Ok(skipped)", "Ok(chunk)"}

None == <<>>
Some(x) == <<x>>

EmptyMap == [k \in {} |-> {}]
Insert(m, k, v) == [x \in (DOMAIN m) \cup {k} |-> IF x = k THEN v ELSE m[x]]
Remove(m, k) == [x \in (DOMAIN m) \ {k} |-> m[x]]

Min(a, b) == IF a <= b THEN a ELSE b

\* data[a..b] of Rust: panics unless a <= b <= len.
SliceOk(data, a, b) == a <= b /\ b <= Len(data)
Slice(data, a, b) == SubSeq(data, a + 1, b)

(***************************************************************************)
(* types.rs                                                                *)
(***************************************************************************)
validate_range(start, end, size) ==
    IF start > end THEN Err("InvalidRange", <<start, end>>)
    ELSE IF start >= size /\ size > 0 THEN Err("InvalidRange", <<start, end>>)
    ELSE Ok(Unit)

(***************************************************************************)
(* storage.rs: the engine operations.                                      *)
(***************************************************************************)
\* create_container that inserts before it looks for the name.
create_container_insert_first(cs, name, ts) ==
    LET made == Insert(cs, name, [metadata |-> [name |-> name, created_at |-> ts],
                                  objects |-> EmptyMap])
    IN  IF name \in DOMAIN cs
        THEN [res |-> Err("ContainerAlreadyExists", name), st |-> made]
        ELSE [res |-> Ok(Unit), st |-> made]

create_container(cs, name, ts) ==
    IF name \in DOMAIN cs
    THEN [res |-> Err("ContainerAlreadyExists", name), st |-> cs]
    ELSE [res |-> Ok(Unit),
          st |-> Insert(cs, name,
                    [metadata |-> [name |-> name, created_at |-> ts],
                     objects |-> EmptyMap])]

container_exists(cs, name) == name \in DOMAIN cs

get_container_metadata(cs, name) ==
    IF name \in DOMAIN cs
    THEN [res |-> OkMeta(cs[name].metadata), st |-> cs]
    ELSE [res |-> Err("ContainerNotFound", name), st |-> cs]

\* delete_container without the is_empty check.
delete_container_force(cs, name) ==
    IF name \in DOMAIN cs
    THEN [res |-> Ok(Unit), st |-> Remove(cs, name)]
    ELSE [res |-> Err("ContainerNotFound", name), st |-> cs]

delete_container(cs, name) ==
    IF name \in DOMAIN cs
    THEN IF DOMAIN cs[name].objects # {}
         THEN [res |-> Err("ContainerNotEmpty", name), st |-> cs]
         ELSE [res |-> Ok(Unit), st |-> Remove(cs, name)]
    ELSE [res |-> Err("ContainerNotFound", name), st |-> cs]

\* Ord of String: byte-wise lexicographic, a proper prefix first.
RECURSIVE LexLess(_, _)
LexLess(a, b) ==
    IF a = <<>> THEN b # <<>>
    ELSE IF b = <<>> THEN FALSE
    ELSE IF Head(a) # Head(b) THEN Head(a) < Head(b)
    ELSE LexLess(Tail(a), Tail(b))

\* names.sort(): x put before the first element of the sorted s that is greater.
RECURSIVE SortInsert(_, _)
SortInsert(s, x) ==
    IF s = <<>> THEN <<x>>
    ELSE IF LexLess(x, Head(s)) THEN <<x>> \o s
    ELSE <<Head(s)>> \o SortInsert(Tail(s), x)

RECURSIVE sort(_)
sort(names) ==
    IF names = <<>> THEN <<>>
    ELSE SortInsert(sort(SubSeq(names, 1, Len(names) - 1)), names[Len(names)])

\* The orders in which objects.keys() may yield the keys of a HashMap.
KeyOrders(m) ==
    {s \in [1..Cardinality(DOMAIN m) -> DOMAIN m] :
        \A i, j \in DOMAIN s : i # j => s[i] # s[j]}

\* list_objects that returns the keys as the HashMap yields them.
list_objects_unsorted(cs, c, keys) ==
    IF c \in DOMAIN cs
    THEN [res |-> OkNames(keys), st |-> cs]
    ELSE [res |-> Err("ContainerNotFound", c), st |-> cs]

\* keys: container.objects.keys().cloned().collect(), in the HashMap's order
list_objects(cs, c, keys) ==
    IF c \in DOMAIN cs
    THEN [res |-> OkNames(sort(keys)), st |-> cs]
    ELSE [res |-> Err("ContainerNotFound", c), st |-> cs]

\* (end + 1) as usize: the u64 addition overflows for end = u64::MAX; the
\* debug build panics, the release build wraps to 0.
get_object_data(cs, c, o, start, end, build) ==
    IF c \notin DOMAIN cs THEN [res |-> Err("ContainerNotFound", c), st |-> cs]
    ELSE IF o \notin DOMAIN cs[c].objects
    THEN [res |-> Err("ObjectNotFound", o), st |-> cs]
    ELSE LET data == cs[c].objects[o].data IN
         IF start # None /\ end # None
         THEN LET s == start[1]
                  e == end[1]
                  v == validate_range(s, e, Len(data))
                  overflow == e + 1 > U64_MAX
                  end_idx == Min((e + 1) % (U64_MAX + 1), Len(data))
              IN  IF ~IsOk(v) THEN [res |-> v, st |-> cs]
                  ELSE IF overflow /\ build = "debug" THEN [res |-> Panic, st |-> cs]
                  ELSE IF ~SliceOk(data, s, end_idx) THEN [res |-> Panic, st |-> cs]
                  ELSE [res |-> Ok(Slice(data, s, end_idx)), st |-> cs]
         ELSE [res |-> Ok(data), st |-> cs]

\* put_object_data that keeps an object already stored under the name.
put_object_data_keep(cs, c, o, data, ts) ==
    IF c \notin DOMAIN cs THEN [res |-> Err("ContainerNotFound", c), st |-> cs]
    ELSE IF o \in DOMAIN cs[c].objects THEN [res |-> Ok(Unit), st |-> cs]
    ELSE [res |-> Ok(Unit),
          st |-> [cs EXCEPT ![c].objects =
                     Insert(@, o, [metadata |-> [name |-> o, container |-> c,
                                                 created_at |-> ts, size |-> Len(data)],
                                   data |-> data])]]

\* put_object_data that stamps the container with the time of the write.
put_object_data_stamping(cs, c, o, data, ts) ==
    IF c \notin DOMAIN cs THEN [res |-> Err("ContainerNotFound", c), st |-> cs]
    ELSE LET stored_object ==
                 [metadata |-> [name |-> o, container |-> c,
                                created_at |-> ts, size |-> Len(data)],
                  data |-> data]
         IN  [res |-> Ok(Unit),
              st |-> [cs EXCEPT ![c].objects = Insert(@, o, stored_object),
                                ![c].metadata.created_at = ts]]

put_object_data(cs, c, o, data, ts) ==
    IF c \notin DOMAIN cs THEN [res |-> Err("ContainerNotFound", c), st |-> cs]
    ELSE LET stored_object ==
                 [metadata |-> [name |-> o, container |-> c,
                                created_at |-> ts, size |-> Len(data)],
                  data |-> data]
         IN  [res |-> Ok(Unit),
              st |-> [cs EXCEPT ![c].objects = Insert(@, o, stored_object)]]

\* delete_object that reports a missing object.
delete_object_strict(cs, c, o) ==
    IF c \notin DOMAIN cs THEN [res |-> Err("ContainerNotFound", c), st |-> cs]
    ELSE IF o \notin DOMAIN cs[c].objects
    THEN [res |-> Err("ObjectNotFound", o), st |-> cs]
    ELSE [res |-> Ok(Unit), st |-> [cs EXCEPT ![c].objects = Remove(@, o)]]

delete_object(cs, c, o) ==
    IF c \notin DOMAIN cs THEN [res |-> Err("ContainerNotFound", c), st |-> cs]
    ELSE [res |-> Ok(Unit), st |-> [cs EXCEPT ![c].objects = Remove(@, o)]]

RECURSIVE RemoveAll(_, _)
RemoveAll(m, names) ==
    IF names = <<>> THEN m ELSE RemoveAll(Remove(m, Head(names)), Tail(names))

\* delete_objects that stops after the first name.
delete_objects_first(cs, c, names) ==
    IF c \notin DOMAIN cs THEN [res |-> Err("ContainerNotFound", c), st |-> cs]
    ELSE [res |-> Ok(Unit),
          st |-> [cs EXCEPT ![c].objects =
                     IF names = <<>> THEN @ ELSE Remove(@, Head(names))]]

delete_objects(cs, c, names) ==
    IF c \notin DOMAIN cs THEN [res |-> Err("ContainerNotFound", c), st |-> cs]
    ELSE [res |-> Ok(Unit), st |-> [cs EXCEPT ![c].objects = RemoveAll(@, names)]]

object_exists(cs, c, o) ==
    IF c \notin DOMAIN cs THEN [res |-> Err("ContainerNotFound", c), st |-> cs]
    ELSE [res |-> OkBool(o \in DOMAIN cs[c].objects), st |-> cs]

get_object_metadata(cs, c, o) ==
    IF c \notin DOMAIN cs THEN [res |-> Err("ContainerNotFound", c), st |-> cs]
    ELSE IF o \notin DOMAIN cs[c].objects
    THEN [res |-> Err("ObjectNotFound", o), st |-> cs]
    ELSE [res |-> OkMeta(cs[c].objects[o].metadata), st |-> cs]

\* clear_container that removes the container with its objects.
clear_container_remove(cs, c) ==
    IF c \notin DOMAIN cs THEN [res |-> Err("ContainerNotFound", c), st |-> cs]
    ELSE [res |-> Ok(Unit), st |-> Remove(cs, c)]

clear_container(cs, c) ==
    IF c \notin DOMAIN cs THEN [res |-> Err("ContainerNotFound", c), st |-> cs]
    ELSE [res |-> Ok(Unit), st |-> [cs EXCEPT ![c].objects = EmptyMap]]

\* copy_object that creates a missing destination container and keeps an
\* object already stored under the destination name.
copy_object_lenient(cs, src, dest, ts) ==
    IF src.container \notin DOMAIN cs
    THEN [res |-> Err("ContainerNotFound", src.container), st |-> cs]
    ELSE IF src.object \notin DOMAIN cs[src.container].objects
    THEN [res |-> Err("ObjectNotFound", src.object), st |-> cs]
    ELSE LET src_object == cs[src.container].objects[src.object]
             dest_object ==
                 [src_object EXCEPT !.metadata.name = dest.object,
                                    !.metadata.container = dest.container,
                                    !.metadata.created_at = ts]
             made == IF dest.container \in DOMAIN cs THEN cs
                     ELSE create_container(cs, dest.container, ts).st
         IN  IF dest.object \in DOMAIN made[dest.container].objects
             THEN [res |-> Ok(Unit), st |-> made]
             ELSE [res |-> Ok(Unit),
                   st |-> [made EXCEPT ![dest.container].objects =
                                          Insert(@, dest.object, dest_object)]]

\* copy_object that stores the clone of the source with the source's metadata.
copy_object_same_metadata(cs, src, dest, ts) ==
    IF src.container \notin DOMAIN cs
    THEN [res |-> Err("ContainerNotFound", src.container), st |-> cs]
    ELSE IF src.object \notin DOMAIN cs[src.container].objects
    THEN [res |-> Err("ObjectNotFound", src.object), st |-> cs]
    ELSE IF dest.container \notin DOMAIN cs
    THEN [res |-> Err("ContainerNotFound", dest.container), st |-> cs]
    ELSE [res |-> Ok(Unit),
          st |-> [cs EXCEPT ![dest.container].objects =
                     Insert(@, dest.object, cs[src.container].objects[src.object])]]

copy_object(cs, src, dest, ts) ==
    IF src.container \notin DOMAIN cs
    THEN [res |-> Err("ContainerNotFound", src.container), st |-> cs]
    ELSE IF src.object \notin DOMAIN cs[src.container].objects
    THEN [res |-> Err("ObjectNotFound", src.object), st |-> cs]
    ELSE IF dest.container \notin DOMAIN cs
    THEN [res |-> Err("ContainerNotFound", dest.container), st |-> cs]
    ELSE LET src_object == cs[src.container].objects[src.object]
             dest_object ==
                 [src_object EXCEPT !.metadata.name = dest.object,
                                    !.metadata.container = dest.container,
                                    !.metadata.created_at = ts]
         IN  [res |-> Ok(Unit),
              st |-> [cs EXCEPT ![dest.container].objects =
                                    Insert(@, dest.object, dest_object)]]

\* move_object run by one thread with nothing in between: copy, then delete.
move_object(cs, src, dest, ts) ==
    LET copied == copy_object(cs, src, dest, ts) IN
    IF ~IsOk(copied.res) THEN copied
    ELSE delete_object(copied.st, src.container, src.object)

(***************************************************************************)
(* Reading the store.                                                      *)
(***************************************************************************)
HasObject(cs, id) ==
    id.container \in DOMAIN cs /\ id.object \in DOMAIN cs[id.container].objects
DataOf(cs, id) == cs[id.container].objects[id.object].data
\* The bytes a full read of id returns, as an option.
Bytes(cs, id) == IF HasObject(cs, id) THEN Some(DataOf(cs, id)) ELSE None

(***************************************************************************)
(* The engine's actions.  A call of an operation other than move_object is *)
(* one step.  Returned records the call in last and tells the thread inside*)
(* move_object, if it is between its two steps, that a writer ran.         *)
(***************************************************************************)
NoId == [container |-> "", object |-> <<>>]
MvIdle == [pc |-> "idle", src |-> NoId, dest |-> NoId, res |-> Ok(Unit),
           step |-> "", orig |-> None, interfered |-> FALSE]

MvAfterOther(writer) ==
    IF mv.pc = "copied" THEN [mv EXCEPT !.interfered = @ \/ writer]
    ELSE MvIdle

\* A cursor that follows the container it was listed from.
CursorAfter_live(st) ==
    IF cur.made /\ cur.from \in DOMAIN st
    THEN [cur EXCEPT !.s.objects =
              sort(CHOOSE k \in KeyOrders(st[cur.from].objects) : TRUE)]
    ELSE cur

\* The cursor after a call of the engine that leaves the containers st: the
\* cursor owns its Vec of names, so it is the cursor there was.
CursorAfter(st) == cur

\* The thread inside the facade's delete_container, after a call of another
\* thread: between its two steps it is told that a writer ran.
FdAfterOther(writer) ==
    IF fd.pc = "cleared" THEN [fd EXCEPT !.interfered = @ \/ writer]
    ELSE [pc |-> "idle", name |-> "", existed |-> FALSE, before |-> EmptyMap,
          interfered |-> FALSE]

\* old: the bytes the objects named by the call held before it (copy_object
\* and delete_object); for clear_container, the bytes of one of the objects
\* the container held, if it held any.
Returned(op, args, r, writer) ==
    /\ containers' = r.st
    /\ last' = [op |-> op, args |-> args, res |-> r.res,
                old |-> IF op = "copy_object"
                        THEN <<Bytes(containers, args[1]), Bytes(containers, args[2])>>
                        ELSE IF op = "delete_object"
                        THEN <<Bytes(containers, [container |-> args[1],
                                                  object |-> args[2]])>>
                        ELSE IF op = "clear_container" /\ args[1] \in DOMAIN containers
                                   /\ containers[args[1]].objects # EmptyMap
                        THEN LET objects == containers[args[1]].objects
                             IN  <<Some(objects[CHOOSE o \in DOMAIN objects : TRUE].data)>>
                        ELSE <<>>]
    /\ mv' = MvAfterOther(writer)
    /\ cur' = CursorAfter(r.st)
    /\ fd' = FdAfterOther(writer)
    /\ UNCHANGED <<valueVars, lockVars, inc, hd>>

Call_create_container(name, ts) ==
    Returned("create_container", <<name>>, create_container(containers, name, ts), TRUE)

Call_delete_container(name) ==
    Returned("delete_container", <<name>>, delete_container(containers, name), TRUE)

Call_get_object_data(c, o, start, end, build) ==
    Returned("get_object_data", <<c, o, start, end>>,
             get_object_data(containers, c, o, start, end, build), FALSE)

Call_put_object_data(c, o, data, ts) ==
    Returned("put_object_data", <<c, o, data>>,
             put_object_data(containers, c, o, data, ts), TRUE)

Call_delete_object(c, o) ==
    Returned("delete_object", <<c, o>>, delete_object(containers, c, o), TRUE)

Call_delete_objects(c, names) ==
    Returned("delete_objects", <<c, names>>, delete_objects(containers, c, names), TRUE)

Call_object_exists(c, o) ==
    Returned("object_exists", <<c, o>>, object_exists(containers, c, o), FALSE)

Call_get_object_metadata(c, o) ==
    Returned("get_object_metadata", <<c, o>>, get_object_metadata(containers, c, o), FALSE)

Call_clear_container(c) ==
    Returned("clear_container", <<c>>, clear_container(containers, c), TRUE)

Call_list_objects(c) ==
    \E keys \in (IF c \in DOMAIN containers
                 THEN KeyOrders(containers[c].objects) ELSE {<<>>}) :
        Returned("list_objects", <<c>>, list_objects(containers, c, keys), FALSE)

Call_copy_object(src, dest, ts) ==
    Returned("copy_object", <<src, dest>>, copy_object(containers, src, dest, ts), TRUE)

\* move_object deleting the source first.
Move_copy_delete_first(src, dest, ts) ==
    /\ mv.pc \in {"idle", "done"}
    /\ LET r == delete_object(containers, src.container, src.object) IN
       /\ containers' = r.st
       /\ mv' = [MvIdle EXCEPT !.src = src, !.dest = dest, !.res = r.res,
                               !.step = "copy", !.orig = Bytes(containers, src),
                               !.pc = "copied"]
       /\ last' = [op |-> "move_object.copy", args |-> <<src, dest>>,
                   res |-> r.res, old |-> <<>>]
    /\ cur' = CursorAfter(containers')
    /\ UNCHANGED <<valueVars, lockVars, inc, hd, fd>>

\* move_object, first step: self.copy_object(src, dest)?
Move_copy(src, dest, ts) ==
    /\ mv.pc \in {"idle", "done"}
    /\ LET r == copy_object(containers, src, dest, ts)
           m == [MvIdle EXCEPT !.src = src, !.dest = dest, !.res = r.res,
                               !.step = "copy", !.orig = Bytes(containers, src)]
       IN  /\ containers' = r.st
           /\ IF IsOk(r.res)
              THEN /\ mv' = [m EXCEPT !.pc = "copied"]
                   /\ last' = [op |-> "move_object.copy", args |-> <<src, dest>>,
                               res |-> r.res, old |-> <<>>]
              ELSE /\ mv' = [m EXCEPT !.pc = "done"]
                   /\ last' = [op |-> "move_object", args |-> <<src, dest>>,
                               res |-> r.res, old |-> <<>>]
    /\ cur' = CursorAfter(containers')
    /\ UNCHANGED <<valueVars, lockVars, inc, hd, fd>>

\* The second step deleting the destination instead of the source.
Move_delete_dest ==
    /\ mv.pc = "copied"
    /\ LET r == delete_object(containers, mv.dest.container, mv.dest.object) IN
       /\ containers' = r.st
       /\ mv' = [mv EXCEPT !.pc = "done", !.res = r.res, !.step = "delete"]
       /\ last' = [op |-> "move_object", args |-> <<mv.src, mv.dest>>, res |-> r.res,
                   old |-> <<>>]
    /\ cur' = CursorAfter(containers')
    /\ UNCHANGED <<valueVars, lockVars, inc, hd, fd>>

\* move_object, second step: self.delete_object(&src.container, &src.object)?
Move_delete ==
    /\ mv.pc = "copied"
    /\ LET r == delete_object(containers, mv.src.container, mv.src.object) IN
       /\ containers' = r.st
       /\ mv' = [mv EXCEPT !.pc = "done", !.res = r.res, !.step = "delete"]
       /\ last' = [op |-> "move_object", args |-> <<mv.src, mv.dest>>, res |-> r.res,
                   old |-> <<>>]
    /\ cur' = CursorAfter(containers')
    /\ UNCHANGED <<valueVars, lockVars, inc, hd, fd>>

(***************************************************************************)
(* values.rs: OutgoingValue and OutgoingValueStream.  data and finished    *)
(* are two separate mutexes, so a call that takes both is two steps.       *)
(***************************************************************************)
\* The longest buffer the writers build.
MaxData == 2
Writers == {"w1", "w2"}
Chunks == {<<7>>, <<8>>}

OvNew == [data |-> <<>>, finished |-> FALSE]
WrNone == [pc |-> "none", chunk |-> <<>>]
WdIdle == [pc |-> "idle", call |-> "", name |-> <<>>, buf |-> <<>>,
           unfinishedAtCall |-> FALSE]
\* written: the chunks of the write() calls that returned Ok, in that order;
\* atFinish: written as it was when finish() returned Ok.
HistNew == [written |-> <<>>, atFinish |-> None]

InvalidOperation == Err("InvalidOperation", <<>>)

\* The check of the finished flag left out.
RejectFinished_never(finished) == FALSE
\* if *finished { return Err(InvalidOperation) } of write_body, finish and write
RejectFinished(finished) == finished
\* if !*finished { return Err(InvalidOperation) } of get_data
RejectUnfinished(finished) == ~finished
\* data.extend_from_slice(chunk)
extend_from_slice(data, chunk) == data \o chunk

ValueStep(op, args, res) ==
    /\ last' = [op |-> op, args |-> args, res |-> res, old |-> <<>>]
    /\ UNCHANGED <<mv, lockVars, frontVars>>

\* OutgoingValue::write_body by thread w
write_body(w) ==
    /\ wr[w].pc = "none"
    /\ IF RejectFinished(ov.finished)
       THEN /\ ValueStep("write_body", <<w>>, InvalidOperation)
            /\ UNCHANGED wr
       ELSE /\ ValueStep("write_body", <<w>>, Ok(Unit))
            /\ wr' = [wr EXCEPT ![w].pc = "open"]
    /\ UNCHANGED <<containers, ov, wd, hist>>

\* OutgoingValueStream::write, first lock: the finished flag
write_check(w, chunk) ==
    /\ wr[w].pc = "open"
    /\ Len(ov.data) + Len(chunk) * (1 + Cardinality({x \in Writers : wr[x].pc = "append"}))
           <= MaxData
    /\ IF RejectFinished(ov.finished)
       THEN /\ ValueStep("write", <<w, chunk>>, InvalidOperation)
            /\ UNCHANGED wr
       ELSE /\ ValueStep("write.check", <<w, chunk>>, Ok(Unit))
            /\ wr' = [wr EXCEPT ![w] = [pc |-> "append", chunk |-> chunk]]
    /\ UNCHANGED <<containers, ov, wd, hist>>

\* OutgoingValueStream::write, second lock: the data
write_append(w) ==
    /\ wr[w].pc = "append"
    /\ ov' = [ov EXCEPT !.data = extend_from_slice(@, wr[w].chunk)]
    /\ hist' = [hist EXCEPT !.written = @ \o wr[w].chunk]
    /\ wr' = [wr EXCEPT ![w] = [pc |-> "open", chunk |-> <<>>]]
    /\ ValueStep("write", <<w, wr[w].chunk>>, Ok(Unit))
    /\ UNCHANGED <<containers, wd>>

\* OutgoingValueStream::close
close(w) ==
    /\ wr[w].pc = "open"
    /\ ValueStep("close", <<w>>, Ok(Unit))
    /\ UNCHANGED <<containers, ov, wr, wd, hist>>

\* OutgoingValue::finish
finish ==
    /\ IF RejectFinished(ov.finished)
       THEN /\ ValueStep("finish", <<>>, InvalidOperation)
            /\ UNCHANGED <<ov, hist>>
       ELSE /\ ValueStep("finish", <<>>, Ok(Unit))
            /\ ov' = [ov EXCEPT !.finished = TRUE]
            /\ hist' = [hist EXCEPT !.atFinish = Some(hist.written)]
    /\ UNCHANGED <<containers, wr, wd>>

\* OutgoingValue::is_finished
is_finished ==
    /\ ValueStep("is_finished", <<>>, OkBool(ov.finished))
    /\ UNCHANGED <<containers, ov, wr, wd, hist>>

\* OutgoingValue::get_data, first lock: the finished flag.  The caller is
\* either the thread itself (wd.pc = "idle") or its write_data.
get_data_check ==
    /\ wd.pc \in {"idle", "get_data"}
    /\ LET call == IF wd.pc = "idle" THEN "get_data" ELSE wd.call IN
       IF RejectUnfinished(ov.finished)
       THEN /\ ValueStep(call, <<wd.name>>, InvalidOperation)
            /\ wd' = [WdIdle EXCEPT !.call = call,
                                    !.unfinishedAtCall =
                                        IF wd.pc = "idle" THEN TRUE
                                        ELSE wd.unfinishedAtCall]
       ELSE /\ ValueStep("get_data.check", <<>>, Ok(Unit))
            /\ wd' = [wd EXCEPT !.pc = "clone", !.call = call,
                                !.unfinishedAtCall =
                                    IF wd.pc = "idle" THEN FALSE ELSE @]
    /\ UNCHANGED <<containers, ov, wr, hist>>

\* OutgoingValue::get_data, second lock: Ok(data.clone())
get_data_clone ==
    /\ wd.pc = "clone"
    /\ IF wd.call = "get_data"
       THEN /\ ValueStep("get_data", <<>>, Ok(ov.data))
            /\ wd' = [wd EXCEPT !.pc = "idle", !.buf = ov.data]
       ELSE /\ ValueStep("write_data.get_data", <<wd.name>>, Ok(ov.data))
            /\ wd' = [wd EXCEPT !.pc = "put", !.buf = ov.data]
    /\ UNCHANGED <<containers, ov, wr, hist>>

(***************************************************************************)
(* container.rs: Container::write_data of the handle bound to container c. *)
(***************************************************************************)
\* write_data without its own is_finished check.
write_data_unchecked(name) ==
    /\ wd.pc = "idle"
    /\ ValueStep("write_data.is_finished", <<name>>, OkBool(ov.finished))
    /\ wd' = [WdIdle EXCEPT !.pc = "get_data", !.call = "write_data", !.name = name,
                            !.unfinishedAtCall = ~ov.finished]
    /\ UNCHANGED <<containers, ov, wr, hist>>

\* if !data.is_finished() { return Err(InvalidOperation) }
write_data_check(name) ==
    /\ wd.pc = "idle"
    /\ IF ~ov.finished
       THEN /\ ValueStep("write_data", <<name>>, InvalidOperation)
            /\ wd' = [WdIdle EXCEPT !.call = "write_data", !.name = name,
                                    !.unfinishedAtCall = TRUE]
       ELSE /\ ValueStep("write_data.is_finished", <<name>>, OkBool(TRUE))
            /\ wd' = [WdIdle EXCEPT !.pc = "get_data", !.call = "write_data",
                                    !.name = name]
    /\ UNCHANGED <<containers, ov, wr, hist>>

\* self.storage.put_object_data(&self.name, &name, object_data)
write_data_put(c, ts) ==
    /\ wd.pc = "put"
    /\ LET r == put_object_data(containers, c, wd.name, wd.buf, ts) IN
       /\ containers' = r.st
       /\ ValueStep("write_data", <<wd.name>>, r.res)
    /\ wd' = [wd EXCEPT !.pc = "idle"]
    /\ UNCHANGED <<ov, wr, hist>>

(***************************************************************************)
(* storage.rs under its lock.  Every operation takes the engine-wide       *)
(* RwLock as its first statement, self.containers.write() or .read(), and  *)
(* holds the guard until it returns.  A thread that calls the lock queues; *)
(* the lock is fair: it is granted in the order of the calls, exclusively  *)
(* to a writer and shared among readers.                                   *)
(***************************************************************************)
Threads == {"t1", "t2"}

\* The calls the threads make.
LockCalls == <<
    [op |-> "create_container", args |-> <<"c1">>],
    [op |-> "delete_container", args |-> <<"c1">>],
    [op |-> "put_object_data", args |-> <<"c1", <<1>>, <<7>>>>],
    [op |-> "put_object_data", args |-> <<"c1", <<1>>, <<8>>>>],
    [op |-> "delete_object", args |-> <<"c1", <<1>>>>],
    [op |-> "delete_objects", args |-> <<"c1", <<<<1>>, <<2>>>>>>],
    [op |-> "clear_container", args |-> <<"c1">>],
    [op |-> "copy_object", args |-> <<[container |-> "c1", object |-> <<1>>],
                                      [container |-> "c1", object |-> <<2>>]>>],
    [op |-> "move_object", args |-> <<[container |-> "c1", object |-> <<1>>],
                                      [container |-> "c1", object |-> <<2>>]>>],
    [op |-> "container_exists", args |-> <<"c1">>],
    [op |-> "get_container_metadata", args |-> <<"c1">>],
    [op |-> "list_objects", args |-> <<"c1">>],
    [op |-> "get_object_data", args |-> <<"c1", <<2>>, None, None>>],
    [op |-> "object_exists", args |-> <<"c1", <<1>>>>],
    [op |-> "get_object_metadata", args |-> <<"c1", <<2>>>>] >>

\* copy_object taking the shared guard.
LockMode_copy_read(op) ==
    IF op \in {"create_container", "delete_container", "put_object_data",
               "delete_object", "delete_objects", "clear_container"}
    THEN "write"
    ELSE "read"
\* Every operation taking the shared guard.
LockMode_read(op) == "read"
\* The guard each operation takes: self.containers.read() or .write().
LockMode(op) ==
    IF op \in {"container_exists", "get_container_metadata", "list_objects",
               "get_object_data", "object_exists", "get_object_metadata"}
    THEN "read"
    ELSE "write"

LockFree == [w |-> {}, r |-> {}, q |-> <<>>]
\* call: index into LockCalls (0: none); phase: "copy" or "delete" inside
\* move_object; local: the clone of the source object copy_object holds;
\* overlapped: during this call the thread held the lock while another did.
ThIdle == [pc |-> "idle", call |-> 0, phase |-> "", res |-> Ok(Unit), local |-> None,
           overlapped |-> FALSE]

CallOf(t) == LockCalls[th[t].call]
\* The engine operation thread t is inside: move_object is inside its
\* copy_object, then inside its delete_object.
OpOf(t) ==
    IF th[t].call = 0 THEN ""
    ELSE IF CallOf(t).op # "move_object" THEN CallOf(t).op
    ELSE IF th[t].phase = "delete" THEN "delete_object" ELSE "copy_object"

Holders == lock.w \cup lock.r
\* RwLock: a writer is granted the lock when nobody holds it, a reader when
\* no writer holds it.
CanGrant(mode) ==
    IF mode = "write" THEN lock.w = {} /\ lock.r = {} ELSE lock.w = {}
Granted(l, t, mode) ==
    IF mode = "write" THEN [l EXCEPT !.w = @ \cup {t}, !.q = Tail(@)]
    ELSE [l EXCEPT !.r = @ \cup {t}, !.q = Tail(@)]
\* The guard is dropped.
Released(l, t) == [l EXCEPT !.w = @ \ {t}, !.r = @ \ {t}]

\* The body of an operation that is one critical section.
Apply(cs, call, ts, keys) ==
    LET a == call.args IN
    CASE call.op = "create_container" -> create_container(cs, a[1], ts)
      [] call.op = "delete_container" -> delete_container(cs, a[1])
      [] call.op = "put_object_data" -> put_object_data(cs, a[1], a[2], a[3], ts)
      [] call.op = "delete_object" -> delete_object(cs, a[1], a[2])
      [] call.op = "delete_objects" -> delete_objects(cs, a[1], a[2])
      [] call.op = "clear_container" -> clear_container(cs, a[1])
      [] call.op = "container_exists" ->
            [res |-> OkBool(container_exists(cs, a[1])), st |-> cs]
      [] call.op = "get_container_metadata" -> get_container_metadata(cs, a[1])
      [] call.op = "list_objects" -> list_objects(cs, a[1], keys)
      [] call.op = "get_object_data" ->
            get_object_data(cs, a[1], a[2], a[3], a[4], "release")
      [] call.op = "object_exists" -> object_exists(cs, a[1], a[2])
      [] call.op = "get_object_metadata" -> get_object_metadata(cs, a[1], a[2])

LockStep == UNCHANGED <<last, mv, valueVars, frontVars>>

\* Thread t calls an operation: its first statement asks for the lock.
Start(t, i) ==
    /\ th[t].pc \in {"idle", "returned"}
    /\ th' = [th EXCEPT ![t] = [ThIdle EXCEPT !.pc = "wait", !.call = i,
                    !.phase = IF LockCalls[i].op = "move_object" THEN "copy" ELSE ""]]
    /\ lock' = [lock EXCEPT !.q = Append(@, t)]
    /\ UNCHANGED containers
    /\ LockStep

\* The lock is granted to the first waiter.
Acquire(t) ==
    /\ th[t].pc = "wait"
    /\ lock.q # <<>> /\ Head(lock.q) = t
    /\ CanGrant(LockMode(OpOf(t)))
    /\ lock' = Granted(lock, t, LockMode(OpOf(t)))
    /\ th' = [u \in Threads |->
                IF u = t THEN [th[t] EXCEPT !.pc = "locked",
                                            !.overlapped = @ \/ Holders # {}]
                ELSE IF u \in Holders THEN [th[u] EXCEPT !.overlapped = TRUE]
                ELSE th[u]]
    /\ UNCHANGED containers
    /\ LockStep

\* The operation returns r: its guard is dropped.
Return(t, r) ==
    /\ containers' = r.st
    /\ lock' = Released(lock, t)
    /\ th' = [th EXCEPT ![t].pc = "returned", ![t].res = r.res]

\* An operation other than copy_object, and the delete_object of move_object.
Body(t) ==
    /\ th[t].pc = "locked"
    /\ OpOf(t) # "copy_object"
    /\ \E ts \in MoveTimestamps,
          keys \in (IF "c1" \in DOMAIN containers
                    THEN KeyOrders(containers["c1"].objects) ELSE {<<>>}) :
          IF CallOf(t).op = "move_object"
          THEN Return(t, delete_object(containers, CallOf(t).args[1].container,
                                       CallOf(t).args[1].object))
          ELSE Return(t, Apply(containers, CallOf(t), ts, keys))
    /\ LockStep

\* copy_object: the source object is looked up and cloned.
CopyRead(t) ==
    /\ th[t].pc = "locked"
    /\ OpOf(t) = "copy_object"
    /\ LET src == CallOf(t).args[1] IN
       IF src.container \notin DOMAIN containers
       THEN Return(t, [res |-> Err("ContainerNotFound", src.container), st |-> containers])
       ELSE IF src.object \notin DOMAIN containers[src.container].objects
       THEN Return(t, [res |-> Err("ObjectNotFound", src.object), st |-> containers])
       ELSE /\ th' = [th EXCEPT ![t].pc = "cloned",
                        ![t].local = Some(containers[src.container].objects[src.object])]
            /\ UNCHANGED <<containers, lock>>
    /\ LockStep

\* copy_object: if !containers.contains_key(&dest.container) { return Err }
CopyCheck(t) ==
    /\ th[t].pc = "cloned"
    /\ LET dest == CallOf(t).args[2] IN
       IF dest.container \notin DOMAIN containers
       THEN Return(t, [res |-> Err("ContainerNotFound", dest.container), st |-> containers])
       ELSE /\ th' = [th EXCEPT ![t].pc = "checked"]
            /\ UNCHANGED <<containers, lock>>
    /\ LockStep

\* What copy_object stores under dest: the clone with its metadata renamed.
DestObject(src_object, dest, ts) ==
    [src_object EXCEPT !.metadata.name = dest.object,
                       !.metadata.container = dest.container,
                       !.metadata.created_at = ts]

\* move_object keeping the guard of its copy_object while it calls
\* delete_object.
AfterCopy_nested(t, st) ==
    /\ containers' = st
    /\ IF CallOf(t).op = "move_object"
       THEN /\ lock' = [lock EXCEPT !.q = Append(@, t)]
            /\ th' = [th EXCEPT ![t].pc = "wait", ![t].phase = "delete",
                                ![t].local = None]
       ELSE /\ lock' = Released(lock, t)
            /\ th' = [th EXCEPT ![t].pc = "returned", ![t].res = Ok(Unit)]

\* copy_object returns Ok(()) and drops its guard; inside move_object the
\* thread goes on to call delete_object, which asks for the lock again.
AfterCopy(t, st) ==
    /\ containers' = st
    /\ IF CallOf(t).op = "move_object"
       THEN /\ lock' = [Released(lock, t) EXCEPT !.q = Append(@, t)]
            /\ th' = [th EXCEPT ![t].pc = "wait", ![t].phase = "delete",
                                ![t].local = None]
       ELSE /\ lock' = Released(lock, t)
            /\ th' = [th EXCEPT ![t].pc = "returned", ![t].res = Ok(Unit)]

\* copy_object: containers.get_mut(&dest.container).unwrap() and the insert.
CopyInsert(t) ==
    /\ th[t].pc = "checked"
    /\ LET dest == CallOf(t).args[2] IN
       IF dest.container \notin DOMAIN containers
       THEN Return(t, [res |-> Panic, st |-> containers])
       ELSE \E ts \in MoveTimestamps :
               AfterCopy(t, [containers EXCEPT ![dest.container].objects =
                               Insert(@, dest.object,
                                      DestObject(th[t].local[1], dest, ts))])
    /\ LockStep

(***************************************************************************)
(* stream.rs: StreamObjectNames, the listing cursor.  The cursor owns its  *)
(* Vec of names; Container::list_objects (container.rs) makes one from the *)
(* engine's list_objects.                                                  *)
(***************************************************************************)
MaxPage == 4
PageSizes == 0..MaxPage

\* StreamObjectNames::new that keeps the order it is given.
StreamObjectNames_new_unsorted(objects) == [objects |-> objects, position |-> 0]

StreamObjectNames_new(objects) == [objects |-> sort(objects), position |-> 0]

\* read_stream_object_names that returns the batch without moving the cursor.
read_stream_object_names_stay(s, len) ==
    LET remaining == Len(s.objects) - s.position
        to_read == Min(len, remaining)
    IN  IF remaining = 0 THEN [res |-> OkBatch(<<>>, TRUE), st |-> s]
        ELSE [res |-> OkBatch(Slice(s.objects, s.position, s.position + to_read),
                              s.position >= Len(s.objects)),
              st |-> s]

read_stream_object_names(s, len) ==
    LET remaining == Len(s.objects) - s.position IN
    IF remaining < 0 THEN [res |-> Panic, st |-> s]
    ELSE IF remaining = 0 THEN [res |-> OkBatch(<<>>, TRUE), st |-> s]
    ELSE LET to_read == Min(len, remaining)
             end_position == s.position + to_read
         IN  [res |-> OkBatch(Slice(s.objects, s.position, end_position),
                              end_position >= Len(s.objects)),
              st |-> [s EXCEPT !.position = end_position]]

\* skip_stream_object_names advancing by the number asked for.
skip_stream_object_names_uncapped(s, num) ==
    LET remaining == Len(s.objects) - s.position IN
    IF remaining = 0 THEN [res |-> OkSkipped(0, TRUE), st |-> s]
    ELSE [res |-> OkSkipped(num, s.position + num >= Len(s.objects)),
          st |-> [s EXCEPT !.position = @ + num]]

\* skip_stream_object_names that reports the number asked for.
skip_stream_object_names_asked(s, num) ==
    LET remaining == Len(s.objects) - s.position
        to_skip == Min(num, remaining)
    IN  IF remaining = 0 THEN [res |-> OkSkipped(0, TRUE), st |-> s]
        ELSE [res |-> OkSkipped(num, s.position + to_skip >= Len(s.objects)),
              st |-> [s EXCEPT !.position = @ + to_skip]]

skip_stream_object_names(s, num) ==
    LET remaining == Len(s.objects) - s.position IN
    IF remaining < 0 THEN [res |-> Panic, st |-> s]
    ELSE IF remaining = 0 THEN [res |-> OkSkipped(0, TRUE), st |-> s]
    ELSE LET to_skip == Min(num, remaining)
             position == s.position + to_skip
         IN  [res |-> OkSkipped(to_skip, position >= Len(s.objects)),
              st |-> [s EXCEPT !.position = position]]

position(s) == s.position

total_count(s) == Len(s.objects)

is_end(s) == s.position >= Len(s.objects)

reset(s) == [s EXCEPT !.position = 0]

peek_next(s) ==
    IF s.position < Len(s.objects) THEN Some(s.objects[s.position + 1]) ELSE None

read_all_remaining(s) ==
    IF s.position >= Len(s.objects) THEN [res |-> OkNames(<<>>), st |-> s]
    ELSE [res |-> OkNames(Slice(s.objects, s.position, Len(s.objects))),
          st |-> [s EXCEPT !.position = Len(s.objects)]]

\* Iterator::next
StreamObjectNames_next(s) ==
    IF s.position < Len(s.objects)
    THEN [res |-> Some(s.objects[s.position + 1]), st |-> [s EXCEPT !.position = @ + 1]]
    ELSE [res |-> None, st |-> s]

\* s: the StreamObjectNames.  The rest records its use: snap, the names its
\* container held, or its Vec held, when it was made; acc, the batches read since it was made, in
\* order; page, the length asked by those reads (-2: no read yet, -1:
\* several lengths, or a skip); first, the skip that was the first call on it;
\* ops, the number of calls on it (2: two or more).
\* from: the container it was listed from ("": none).
NoCursor == [made |-> FALSE, s |-> [objects |-> <<>>, position |-> 0], snap |-> {},
             from |-> "", acc |-> <<>>, page |-> -2, first |-> None, ops |-> 0]
CursorOf(objects, c, names) ==
    [NoCursor EXCEPT !.made = TRUE, !.s = StreamObjectNames_new(objects),
                     !.snap = names, !.from = c]

StreamStep(op, args, res) ==
    /\ last' = [op |-> op, args |-> args, res |-> res, old |-> <<>>]
    /\ UNCHANGED <<containers, mv, valueVars, lockVars, inc, hd, fd>>

\* StreamObjectNames::new(objects)
Stream_new(objects) ==
    /\ cur' = CursorOf(objects, "", {objects[i] : i \in DOMAIN objects})
    /\ StreamStep("StreamObjectNames::new", <<>>, Ok(Unit))

Stream_read(len) ==
    /\ cur.made
    /\ LET r == read_stream_object_names(cur.s, len)
           mixed == cur.page = -1 \/ (cur.page >= 0 /\ cur.page # len)
       IN  /\ cur' = [cur EXCEPT !.s = r.st,
                                 !.acc = IF mixed \/ ~IsOk(r.res) THEN <<>>
                                         ELSE @ \o r.res.val.items,
                                 !.page = IF mixed \/ ~IsOk(r.res) THEN -1 ELSE len,
                                 !.ops = Min(@ + 1, 2)]
           /\ StreamStep("read_stream_object_names", <<len>>, r.res)

Stream_skip(num) ==
    /\ cur.made
    /\ LET r == skip_stream_object_names(cur.s, num) IN
       /\ cur' = [cur EXCEPT !.s = r.st, !.acc = <<>>, !.page = -1,
                             !.first = IF cur.ops = 0 THEN Some(num) ELSE @,
                             !.ops = Min(@ + 1, 2)]
       /\ StreamStep("skip_stream_object_names", <<num>>, r.res)

\* The calls below end the record of reads by one length (page -1).
Stream_is_end ==
    /\ cur.made
    /\ UNCHANGED cur
    /\ StreamStep("StreamObjectNames::is_end", <<>>, OkBool(is_end(cur.s)))

Stream_reset ==
    /\ cur.made
    /\ cur' = [cur EXCEPT !.s = reset(@), !.acc = <<>>, !.page = -1,
                          !.ops = Min(@ + 1, 2)]
    /\ StreamStep("StreamObjectNames::reset", <<>>, Ok(Unit))

Stream_peek_next ==
    /\ cur.made
    /\ UNCHANGED cur
    /\ StreamStep("StreamObjectNames::peek_next", <<>>, OkName(peek_next(cur.s)))

Stream_read_all_remaining ==
    /\ cur.made
    /\ LET r == read_all_remaining(cur.s) IN
       /\ cur' = [cur EXCEPT !.s = r.st, !.acc = <<>>, !.page = -1,
                             !.ops = Min(@ + 1, 2)]
       /\ StreamStep("StreamObjectNames::read_all_remaining", <<>>, r.res)

Stream_next ==
    /\ cur.made
    /\ LET r == StreamObjectNames_next(cur.s) IN
       /\ cur' = [cur EXCEPT !.s = r.st, !.acc = <<>>, !.page = -1,
                             !.ops = Min(@ + 1, 2)]
       /\ StreamStep("StreamObjectNames::next", <<>>, OkName(r.res))

\* Container::list_objects of a handle bound to container c
Container_list_objects(c) ==
    /\ \E keys \in (IF c \in DOMAIN containers
                    THEN KeyOrders(containers[c].objects) ELSE {<<>>}) :
          LET r == list_objects(containers, c, keys) IN
          /\ cur' = IF IsOk(r.res) THEN CursorOf(r.res.val, c, DOMAIN containers[c].objects)
                    ELSE cur
          /\ last' = [op |-> "Container::list_objects", args |-> <<c>>,
                      res |-> IF IsOk(r.res) THEN Ok(Unit) ELSE r.res, old |-> <<>>]
    /\ mv' = MvAfterOther(FALSE)
    /\ UNCHANGED <<containers, valueVars, lockVars, inc, hd, fd>>

(***************************************************************************)
(* container.rs and blobstore.rs: Container handles.  A handle is a name   *)
(* and an Arc of the engine; the facade's handles all hold the one global  *)
(* engine.                                                                 *)
(***************************************************************************)
Handles == {"h1", "h2"}
Unbound == ""
\* wrote: the last call through a handle that changed the engine; had: the
\* bytes the name it wrote held before it.
NoWrite == [op |-> "none", c |-> "", names |-> <<>>, d |-> <<>>, had |-> None]
NoHandles == [bound |-> [h \in Handles |-> Unbound], wrote |-> NoWrite]

\* A second handle holding an engine of its own.
storage_own(h) == IF h = "h2" THEN EmptyMap ELSE containers

\* self.storage of handle h: the engine its Arc points to.
storage(h) == containers

\* One call through handle h, or of the facade (h the handle it returns);
\* bound: the handles after it.
HandleStep(op, args, r, bound) ==
    /\ containers' = r.st
    /\ last' = [op |-> op, args |-> args, res |-> r.res, old |-> <<>>]
    /\ hd' = [bound |-> bound,
              wrote |-> IF r.st = containers THEN hd.wrote
                        ELSE IF op = "Container::write_data"
                        THEN [op |-> op, c |-> hd.bound[args[1]],
                              names |-> <<args[2]>>, d |-> args[3],
                              had |-> Bytes(containers, [container |-> hd.bound[args[1]],
                                                         object |-> args[2]])]
                        ELSE IF op = "Container::delete_object"
                        THEN [NoWrite EXCEPT !.op = op, !.c = hd.bound[args[1]],
                                             !.names = <<args[2]>>]
                        ELSE IF op = "Container::delete_objects"
                        THEN [NoWrite EXCEPT !.op = op, !.c = hd.bound[args[1]],
                                             !.names = args[2]]
                        ELSE IF op = "Container::clear"
                        THEN [NoWrite EXCEPT !.op = op, !.c = hd.bound[args[1]]]
                        ELSE NoWrite]
    /\ mv' = MvAfterOther(r.st # containers)
    /\ cur' = CursorAfter(r.st)
    /\ UNCHANGED <<valueVars, lockVars, inc, fd>>

\* blobstore::create_container(name), its handle kept as h
Blobstore_create_container(h, name, ts) ==
    LET r == create_container(containers, name, ts) IN
    HandleStep("Blobstore::create_container", <<h, name>>, r,
               IF IsOk(r.res) THEN [hd.bound EXCEPT ![h] = name] ELSE hd.bound)

\* blobstore::get_container(name), its handle kept as h
Blobstore_get_container(h, name) ==
    HandleStep("Blobstore::get_container", <<h, name>>,
               [res |-> IF ~container_exists(containers, name)
                        THEN Err("ContainerNotFound", name) ELSE Ok(Unit),
                st |-> containers],
               IF container_exists(containers, name)
               THEN [hd.bound EXCEPT ![h] = name] ELSE hd.bound)

\* blobstore::container_exists(name)
Blobstore_container_exists(name) ==
    HandleStep("Blobstore::container_exists", <<name>>,
               [res |-> OkBool(container_exists(containers, name)), st |-> containers],
               hd.bound)

\* h.clone(), kept as g
Container_clone(h, g) ==
    /\ hd.bound[h] # Unbound
    /\ HandleStep("Container::clone", <<h, g>>, [res |-> Ok(Unit), st |-> containers],
                  [hd.bound EXCEPT ![g] = hd.bound[h]])

\* The engine's delete_container, called by another holder of the engine.
Engine_delete_container(name) ==
    HandleStep("delete_container", <<name>>, delete_container(containers, name),
               hd.bound)

Bound(h) == hd.bound[h] # Unbound

Container_info(h) ==
    /\ Bound(h)
    /\ HandleStep("Container::info", <<h>>,
                  get_container_metadata(storage(h), hd.bound[h]), hd.bound)

Container_get_data(h, name, start, end, build) ==
    /\ Bound(h)
    /\ HandleStep("Container::get_data", <<h, name, start, end>>,
                  get_object_data(storage(h), hd.bound[h], name,
                                  Some(start), Some(end), build), hd.bound)

\* write_data with an OutgoingValue holding data, finished or not: the value
\* is only read, the engine is changed by put_object_data.
Container_write_data(h, name, data, finished, ts) ==
    /\ Bound(h)
    /\ HandleStep("Container::write_data", <<h, name, data>>,
                  IF ~finished THEN [res |-> InvalidOperation, st |-> containers]
                  ELSE put_object_data(storage(h), hd.bound[h], name, data, ts),
                  hd.bound)

\* Container::list_objects through handle h
Container_list_objects_of(h) ==
    /\ Bound(h)
    /\ Container_list_objects(hd.bound[h])

Container_delete_object(h, name) ==
    /\ Bound(h)
    /\ HandleStep("Container::delete_object", <<h, name>>,
                  delete_object(storage(h), hd.bound[h], name), hd.bound)

Container_delete_objects(h, names) ==
    /\ Bound(h)
    /\ HandleStep("Container::delete_objects", <<h, names>>,
                  delete_objects(storage(h), hd.bound[h], names), hd.bound)

Container_has_object(h, name) ==
    /\ Bound(h)
    /\ HandleStep("Container::has_object", <<h, name>>,
                  object_exists(storage(h), hd.bound[h], name), hd.bound)

Container_object_info(h, name) ==
    /\ Bound(h)
    /\ HandleStep("Container::object_info", <<h, name>>,
                  get_object_metadata(storage(h), hd.bound[h], name), hd.bound)

Container_clear(h) ==
    /\ Bound(h)
    /\ HandleStep("Container::clear", <<h>>,
                  clear_container(storage(h), hd.bound[h]), hd.bound)

(***************************************************************************)
(* values.rs: IncomingValue and IncomingValueStream.  position and         *)
(* chunk_size are usize, which is as wide as u64 here.                     *)
(***************************************************************************)
DEFAULT_CHUNK_SIZE == 8192
MaxBytes == 3
\* The byte sequences read: 7, 8, ... up to MaxBytes bytes.
IncomingData == {[i \in 1..n |-> 6 + i] : n \in 0..MaxBytes}
ChunkSizes == 0..U64_MAX

\* IncomingValue::new(data).consume_async(): the default chunk size is larger
\* than every sequence read here, as far as usize lets it be.
IncomingValueStream_new(data) ==
    [data |-> data, position |-> 0, chunk_size |-> Min(DEFAULT_CHUNK_SIZE, U64_MAX)]

set_chunk_size(s, size) == [s EXCEPT !.chunk_size = size]

\* read that takes chunk_size bytes whatever is left.
IncomingValueStream_read_uncapped(s, build) ==
    IF s.position >= Len(s.data) THEN [res |-> OkChunk(None), st |-> s]
    ELSE LET end == s.position + s.chunk_size IN
         IF ~SliceOk(s.data, s.position, end) THEN [res |-> Panic, st |-> s]
         ELSE [res |-> OkChunk(Some(Slice(s.data, s.position, end))),
               st |-> [s EXCEPT !.position = end]]

IncomingValueStream_read(s, build) ==
    IF s.position >= Len(s.data) THEN [res |-> OkChunk(None), st |-> s]
    ELSE LET sum == s.position + s.chunk_size
             end == Min(sum % (U64_MAX + 1), Len(s.data))
         IN  IF sum > U64_MAX /\ build = "debug" THEN [res |-> Panic, st |-> s]
             ELSE IF ~SliceOk(s.data, s.position, end) THEN [res |-> Panic, st |-> s]
             ELSE [res |-> OkChunk(Some(Slice(s.data, s.position, end))),
                   st |-> [s EXCEPT !.position = end]]

IncomingValueStream_read_all(s) ==
    IF s.position >= Len(s.data) THEN [res |-> Ok(<<>>), st |-> s]
    ELSE [res |-> Ok(Slice(s.data, s.position, Len(s.data))),
          st |-> [s EXCEPT !.position = Len(s.data)]]

IncomingValueStream_is_end(s) == s.position >= Len(s.data)

IncomingValueStream_close(s) ==
    [res |-> Ok(Unit), st |-> [s EXCEPT !.position = Len(s.data)]]

\* s: the IncomingValueStream.  acc: the chunks read() returned since the
\* stream was made, in order; k: the chunk size those reads were made with
\* (-2: no read yet, -1: several sizes, or read_all or close was called).
NoIncoming == [made |-> FALSE, s |-> IncomingValueStream_new(<<>>), acc |-> <<>>,
               k |-> -2]

IncomingStep(op, args, res) ==
    /\ last' = [op |-> op, args |-> args, res |-> res, old |-> <<>>]
    /\ UNCHANGED <<containers, mv, valueVars, lockVars, cur, hd, fd>>

Incoming_new(data) ==
    /\ inc' = [NoIncoming EXCEPT !.made = TRUE, !.s = IncomingValueStream_new(data)]
    /\ IncomingStep("IncomingValueStream::new", <<data>>, Ok(Unit))

Incoming_set_chunk_size(size) ==
    /\ inc.made
    /\ inc' = [inc EXCEPT !.s = set_chunk_size(@, size)]
    /\ IncomingStep("IncomingValueStream::set_chunk_size", <<size>>, Ok(Unit))

Incoming_read(build) ==
    /\ inc.made
    /\ LET r == IncomingValueStream_read(inc.s, build)
           mixed == inc.k = -1 \/ (inc.k >= 0 /\ inc.k # inc.s.chunk_size)
                    \/ ~IsOk(r.res)
       IN  /\ inc' = [inc EXCEPT !.s = r.st,
                                 !.acc = IF mixed THEN <<>>
                                         ELSE IF r.res.val = None THEN @
                                         ELSE @ \o r.res.val[1],
                                 !.k = IF mixed THEN -1 ELSE inc.s.chunk_size]
           /\ IncomingStep("IncomingValueStream::read", <<>>, r.res)

Incoming_read_all ==
    /\ inc.made
    /\ LET r == IncomingValueStream_read_all(inc.s) IN
       /\ inc' = [inc EXCEPT !.s = r.st, !.acc = <<>>, !.k = -1]
       /\ IncomingStep("IncomingValueStream::read_all", <<>>, r.res)

Incoming_is_end ==
    /\ inc.made
    /\ inc' = inc
    /\ IncomingStep("IncomingValueStream::is_end", <<>>,
                    OkBool(IncomingValueStream_is_end(inc.s)))

Incoming_close ==
    /\ inc.made
    /\ LET r == IncomingValueStream_close(inc.s) IN
       /\ inc' = [inc EXCEPT !.s = r.st, !.acc = <<>>, !.k = -1]
       /\ IncomingStep("IncomingValueStream::close", <<>>, r.res)

(***************************************************************************)
(* blobstore.rs: copy_object and move_object of the facade, run by one     *)
(* thread with nothing in between: the test of the destination container,  *)
(* then the engine's operation.                                            *)
(***************************************************************************)
\* The facade's copy_object without its own test.
Blobstore_copy_object_untested(cs, src, dest, ts) == copy_object(cs, src, dest, ts)

Blobstore_copy_object(cs, src, dest, ts) ==
    IF ~container_exists(cs, dest.container)
    THEN [res |-> Err("ContainerNotFound", dest.container), st |-> cs]
    ELSE copy_object(cs, src, dest, ts)

Blobstore_move_object(cs, src, dest, ts) ==
    IF ~container_exists(cs, dest.container)
    THEN [res |-> Err("ContainerNotFound", dest.container), st |-> cs]
    ELSE move_object(cs, src, dest, ts)

Call_Blobstore_copy_object(src, dest, ts) ==
    Returned("Blobstore::copy_object", <<src, dest, ts>>,
             Blobstore_copy_object(containers, src, dest, ts), TRUE)

Call_Blobstore_move_object(src, dest, ts) ==
    Returned("Blobstore::move_object", <<src, dest, ts>>,
             Blobstore_move_object(containers, src, dest, ts), TRUE)

(***************************************************************************)
(* blobstore.rs: delete_container of the facade, two calls of the engine:  *)
(* storage.clear_container(&name)?; storage.delete_container(&name).  Each *)
(* call takes the engine's lock by itself, so other threads' calls can run *)
(* between the two.                                                        *)
(***************************************************************************)
\* pc: where the thread inside delete_container is; existed, before: whether
\* the container existed when the call began, and the objects it held;
\* interfered: a call of another thread that writes ran between the two steps.
FdIdle == [pc |-> "idle", name |-> "", existed |-> FALSE, before |-> EmptyMap,
           interfered |-> FALSE]

\* storage.clear_container(&name)?
Facade_delete_clear(name) ==
    /\ fd.pc \in {"idle", "done"}
    /\ LET r == clear_container(containers, name)
           f == [FdIdle EXCEPT !.name = name, !.existed = name \in DOMAIN containers,
                               !.before = IF name \in DOMAIN containers
                                          THEN containers[name].objects ELSE EmptyMap]
       IN  /\ containers' = r.st
           /\ cur' = CursorAfter(r.st)
           /\ IF IsOk(r.res)
              THEN /\ fd' = [f EXCEPT !.pc = "cleared"]
                   /\ last' = [op |-> "Blobstore::delete_container.clear",
                               args |-> <<name>>, res |-> r.res, old |-> <<>>]
              ELSE /\ fd' = [f EXCEPT !.pc = "done"]
                   /\ last' = [op |-> "Blobstore::delete_container",
                               args |-> <<name>>, res |-> r.res, old |-> <<>>]
    /\ mv' = MvAfterOther(TRUE)
    /\ UNCHANGED <<valueVars, lockVars, inc, hd>>

\* storage.delete_container(&name)
Facade_delete_delete ==
    /\ fd.pc = "cleared"
    /\ LET r == delete_container(containers, fd.name) IN
       /\ containers' = r.st
       /\ cur' = CursorAfter(r.st)
       /\ fd' = [fd EXCEPT !.pc = "done"]
       /\ last' = [op |-> "Blobstore::delete_container", args |-> <<fd.name>>,
                   res |-> r.res, old |-> <<>>]
    /\ mv' = MvAfterOther(TRUE)
    /\ UNCHANGED <<valueVars, lockVars, inc, hd>>


(***************************************************************************)
(* Spec: the engine, called by any number of threads, one of which may be  *)
(* inside move_object.                                                     *)
(***************************************************************************)
NoCall == [op |-> "new", args |-> <<>>, res |-> Ok(Unit), old |-> <<>>]
\* Arguments the calls are made with.
ReadRanges == {<<None, None>>, <<Some(1), Some(0)>>}
NameLists == {<<>>, <<<<1>>, <<2>>>>, <<<<2>>, <<2>>>>}

Init ==
    /\ containers = EmptyMap
    /\ last = NoCall
    /\ mv = MvIdle
    /\ ov = OvNew
    /\ wr = [w \in Writers |-> WrNone]
    /\ wd = WdIdle
    /\ hist = HistNew
    /\ lock = LockFree
    /\ th = [t \in Threads |-> ThIdle]
    /\ cur = NoCursor
    /\ inc = NoIncoming
    /\ hd = NoHandles
    /\ fd = FdIdle

Next ==
    \/ \E n \in ContainerNames, ts \in Timestamps : Call_create_container(n, ts)
    \/ \E n \in ContainerNames : Call_delete_container(n)
    \/ \E c \in ContainerNames, o \in ObjectNames, rg \in ReadRanges, b \in Builds :
          Call_get_object_data(c, o, rg[1], rg[2], b)
    \/ \E c \in ContainerNames, o \in ObjectNames, d \in Payloads, ts \in Timestamps :
          Call_put_object_data(c, o, d, ts)
    \/ \E c \in ContainerNames, o \in ObjectNames : Call_delete_object(c, o)
    \/ \E c \in ContainerNames, ns \in NameLists : Call_delete_objects(c, ns)
    \/ \E c \in ContainerNames : Call_clear_container(c)
    \/ \E s \in ObjectIds, d \in ObjectIds, ts \in Timestamps : Call_copy_object(s, d, ts)

Spec == Init /\ [][Next]_vars

(***************************************************************************)
(* SpecMove: one thread inside move_object, which takes the engine lock    *)
(* for its copy and again for its delete, and other threads calling the    *)
(* engine's writers at any point, between the two steps included.          *)
(***************************************************************************)
MoveSources == {[container |-> "c1", object |-> <<1>>]}
MoveDests == {[container |-> "c1", object |-> <<1>>],
              [container |-> "c1", object |-> <<2>>],
              [container |-> "c2", object |-> <<1>>]}

NextMove ==
    \/ \E n \in ContainerNames, ts \in MoveTimestamps : Call_create_container(n, ts)
    \/ \E n \in ContainerNames : Call_delete_container(n)
    \/ \E c \in ContainerNames, o \in ObjectNames, d \in Payloads, ts \in MoveTimestamps :
          Call_put_object_data(c, o, d, ts)
    \/ \E c \in ContainerNames, o \in ObjectNames : Call_delete_object(c, o)
    \/ \E c \in ContainerNames : Call_clear_container(c)
    \/ \E s \in MoveSources, d \in MoveDests, ts \in MoveTimestamps :
          Call_copy_object(s, d, ts)
    \/ \E s \in MoveSources, d \in MoveDests, ts \in MoveTimestamps : Move_copy(s, d, ts)
    \/ Move_delete

SpecMove == Init /\ [][NextMove]_vars

(***************************************************************************)
(* SpecValue: one OutgoingValue shared by two writer threads, a thread     *)
(* that finishes it and a thread that reads it back or hands it to the     *)
(* write_data of a Container handle bound to "c1".                         *)
(***************************************************************************)
NextValue ==
    \/ \E ts \in MoveTimestamps : Call_create_container("c1", ts)
    \/ \E w \in Writers : write_body(w)
    \/ \E w \in Writers, ch \in Chunks : write_check(w, ch)
    \/ \E w \in Writers : write_append(w)
    \/ \E w \in Writers : close(w)
    \/ finish
    \/ is_finished
    \/ get_data_check
    \/ get_data_clone
    \/ \E o \in ObjectNames : write_data_check(o)
    \/ \E ts \in MoveTimestamps : write_data_put("c1", ts)

SpecValue == Init /\ [][NextValue]_vars

(***************************************************************************)
(* SpecRange: the reads.  get_object_data over every pair of optional      *)
(* offsets of the (scaled) u64 range, on one object of every length up to  *)
(* three, with object_exists and get_object_metadata.                      *)
(***************************************************************************)
RangePayloads == {<<>>, <<7>>, <<7, 8>>, <<7, 8, 9>>}
Offsets == 0..U64_MAX
OptOffsets == {None} \cup {Some(x) : x \in Offsets}

NextRange ==
    \/ \E ts \in MoveTimestamps : Call_create_container("c1", ts)
    \/ \E d \in RangePayloads, ts \in MoveTimestamps :
          Call_put_object_data("c1", <<1>>, d, ts)
    \/ \E start \in OptOffsets, end \in OptOffsets, b \in Builds :
          Call_get_object_data("c1", <<1>>, start, end, b)
    \/ \E c \in ContainerNames, o \in ObjectNames : Call_object_exists(c, o)
    \/ \E c \in ContainerNames, o \in ObjectNames : Call_get_object_metadata(c, o)

SpecRange == Init /\ [][NextRange]_vars

(***************************************************************************)
(* SpecList: list_objects on a container whose objects are put, deleted,   *)
(* cleared, copied and moved; one of the three names is a proper prefix of *)
(* another.                                                                *)
(***************************************************************************)
ListNames == {<<1>>, <<1, 2>>, <<2>>}
ListPayloads == {<<7>>}
ListIds == [container : {"c1"}, object : ListNames]

NextList ==
    \/ \E ts \in MoveTimestamps : Call_create_container("c1", ts)
    \/ Call_delete_container("c1")
    \/ \E o \in ListNames, d \in ListPayloads, ts \in MoveTimestamps :
          Call_put_object_data("c1", o, d, ts)
    \/ \E o \in ListNames : Call_delete_object("c1", o)
    \/ Call_clear_container("c1")
    \/ \E s \in ListIds, d \in ListIds, ts \in MoveTimestamps : Call_copy_object(s, d, ts)
    \/ \E s \in ListIds, d \in ListIds, ts \in MoveTimestamps : Move_copy(s, d, ts)
    \/ Move_delete
    \/ \E c \in ContainerNames : Call_list_objects(c)

SpecList == Init /\ [][NextList]_vars

(***************************************************************************)
(* SpecSnapshot: a listing cursor made from container c1 and read while    *)
(* c1's objects are put, deleted, cleared, copied and moved.               *)
(***************************************************************************)
SnapshotPage == 2

NextSnapshot ==
    \/ \E ts \in MoveTimestamps : Call_create_container("c1", ts)
    \/ Call_delete_container("c1")
    \/ \E o \in ListNames, d \in ListPayloads, ts \in MoveTimestamps :
          Call_put_object_data("c1", o, d, ts)
    \/ \E o \in ListNames : Call_delete_object("c1", o)
    \/ Call_clear_container("c1")
    \/ \E s \in ListIds, d \in ListIds, ts \in MoveTimestamps : Call_copy_object(s, d, ts)
    \/ \E s \in ListIds, d \in ListIds, ts \in MoveTimestamps : Move_copy(s, d, ts)
    \/ Move_delete
    \/ Container_list_objects("c1")
    \/ Stream_read(SnapshotPage)

SpecSnapshot == Init /\ [][NextSnapshot]_vars

(***************************************************************************)
(* SpecCursor: cursors made from every Vec of distinct names, in every     *)
(* order, read and skipped by every length.                                *)
(***************************************************************************)
NameVecs == UNION {KeyOrders([o \in S |-> {}]) : S \in SUBSET ListNames}

NextCursor ==
    \/ \E objects \in NameVecs : Stream_new(objects)
    \/ \E len \in PageSizes : Stream_read(len)
    \/ \E num \in PageSizes : Stream_skip(num)

SpecCursor == Init /\ [][NextCursor]_vars

(***************************************************************************)
(* SpecCursorLoop: a cursor made once and read by one length again and     *)
(* again, is_end() asked at any time.                                      *)
(***************************************************************************)
NextCursorLoop ==
    \/ \E objects \in NameVecs : ~cur.made /\ Stream_new(objects)
    \/ \E len \in PageSizes : cur.page \in {-2, len} /\ Stream_read(len)
    \/ Stream_is_end

(***************************************************************************)
(* SpecCursorAll: SpecCursor with the cursor's other operations.           *)
(***************************************************************************)
NextCursorAll ==
    \/ NextCursor
    \/ Stream_is_end
    \/ Stream_reset
    \/ Stream_peek_next
    \/ Stream_read_all_remaining
    \/ Stream_next

SpecCursorAll == Init /\ [][NextCursorAll]_vars

SpecCursorLoop ==
    Init /\ [][NextCursorLoop]_vars /\ WF_vars(\E len \in PageSizes : cur.page \in {-2, len} /\ Stream_read(len))

(***************************************************************************)
(* SpecHandle: two handles of one container, made by the facade or cloned, *)
(* used in any order.                                                      *)
(***************************************************************************)
HandleContainers == {"c1"}
HandlePayloads == {<<7>>, <<7, 8>>}
HandleRanges == {<<0, 0>>, <<0, 1>>}

NextHandle ==
    \/ \E h \in Handles, n \in HandleContainers, ts \in MoveTimestamps :
          Blobstore_create_container(h, n, ts)
    \/ \E h \in Handles, n \in HandleContainers : Blobstore_get_container(h, n)
    \/ \E n \in HandleContainers : Blobstore_container_exists(n)
    \/ \E h, g \in Handles : Container_clone(h, g)
    \/ \E n \in HandleContainers : Engine_delete_container(n)
    \/ \E h \in Handles : Container_info(h)
    \/ \E h \in Handles, o \in ObjectNames, r \in HandleRanges, b \in Builds :
          Container_get_data(h, o, r[1], r[2], b)
    \/ \E h \in Handles, o \in ObjectNames, d \in HandlePayloads, f \in BOOLEAN,
          ts \in MoveTimestamps : Container_write_data(h, o, d, f, ts)
    \/ \E h \in Handles : Container_list_objects_of(h)
    \/ \E h \in Handles, o \in ObjectNames : Container_delete_object(h, o)
    \/ \E h \in Handles, names \in NameLists : Container_delete_objects(h, names)
    \/ \E h \in Handles, o \in ObjectNames : Container_has_object(h, o)
    \/ \E h \in Handles, o \in ObjectNames : Container_object_info(h, o)
    \/ \E h \in Handles : Container_clear(h)

SpecHandle == Init /\ [][NextHandle]_vars

(***************************************************************************)
(* SpecIncoming: a staged-read cursor over every sequence of up to         *)
(* MaxBytes bytes, its chunk size set to any usize at any time.            *)
(***************************************************************************)
NextIncoming ==
    \/ \E data \in IncomingData : Incoming_new(data)
    \/ \E size \in ChunkSizes : Incoming_set_chunk_size(size)
    \/ \E build \in Builds : Incoming_read(build)
    \/ Incoming_read_all
    \/ Incoming_is_end
    \/ Incoming_close

SpecIncoming == Init /\ [][NextIncoming]_vars

(***************************************************************************)
(* SpecIncomingLoop: a staged-read cursor made once, its chunk size set    *)
(* before the first read, then read() called again and again, is_end()     *)
(* asked at any time.                                                      *)
(***************************************************************************)
NextIncomingLoop ==
    \/ \E data \in IncomingData : ~inc.made /\ Incoming_new(data)
    \/ \E size \in ChunkSizes : inc.k = -2 /\ Incoming_set_chunk_size(size)
    \/ \E build \in Builds : Incoming_read(build)
    \/ Incoming_is_end

SpecIncomingLoop ==
    Init /\ [][NextIncomingLoop]_vars /\ WF_vars(\E build \in Builds : Incoming_read(build))

(***************************************************************************)
(* SpecFrame: the engine's writes on two containers of up to two objects.  *)
(***************************************************************************)
NextFrame ==
    \/ \E n \in ContainerNames, ts \in MoveTimestamps : Call_create_container(n, ts)
    \/ \E n \in ContainerNames : Call_delete_container(n)
    \/ \E c \in ContainerNames, o \in ObjectNames, d \in Payloads, ts \in Timestamps :
          Call_put_object_data(c, o, d, ts)
    \/ \E c \in ContainerNames, o \in ObjectNames : Call_delete_object(c, o)
    \/ \E c \in ContainerNames, names \in NameLists : Call_delete_objects(c, names)
    \/ \E c \in ContainerNames : Call_clear_container(c)
    \/ \E s \in ObjectIds, d \in ObjectIds, ts \in MoveTimestamps : Call_copy_object(s, d, ts)

SpecFrame == Init /\ [][NextFrame]_vars

(***************************************************************************)
(* SpecPass: the facade's copy_object and move_object called in every      *)
(* state of two containers of up to two objects.                           *)
(***************************************************************************)
NextPass ==
    \/ \E n \in ContainerNames, ts \in MoveTimestamps : Call_create_container(n, ts)
    \/ \E n \in ContainerNames : Call_delete_container(n)
    \/ \E c \in ContainerNames, o \in ObjectNames, d \in Payloads, ts \in MoveTimestamps :
          Call_put_object_data(c, o, d, ts)
    \/ \E c \in ContainerNames, o \in ObjectNames : Call_delete_object(c, o)
    \/ \E s \in ObjectIds, d \in ObjectIds, ts \in MoveTimestamps :
          Call_Blobstore_copy_object(s, d, ts)
    \/ \E s \in ObjectIds, d \in ObjectIds, ts \in MoveTimestamps :
          Call_Blobstore_move_object(s, d, ts)

SpecPass == Init /\ [][NextPass]_vars

(***************************************************************************)
(* SpecFacade: a thread calling the facade's delete_container while other  *)
(* threads call the engine.                                                *)
(***************************************************************************)
NextFacade ==
    \/ \E n \in ContainerNames, ts \in MoveTimestamps : Call_create_container(n, ts)
    \/ \E n \in ContainerNames : Call_delete_container(n)
    \/ \E c \in ContainerNames, o \in ObjectNames, d \in Payloads, ts \in MoveTimestamps :
          Call_put_object_data(c, o, d, ts)
    \/ \E c \in ContainerNames, o \in ObjectNames : Call_delete_object(c, o)
    \/ \E c \in ContainerNames, o \in ObjectNames : Call_object_exists(c, o)
    \/ \E n \in ContainerNames : Facade_delete_clear(n)
    \/ Facade_delete_delete

SpecFacade == Init /\ [][NextFacade]_vars

(***************************************************************************)
(* SpecLock: the threads calling the engine through its lock; SpecLockFair *)
(* adds that a thread that can take its next step eventually takes it      *)
(* (the lock being fair, a waiting thread is the first waiter at some      *)
(* point and is granted the lock once it is free).                         *)
(***************************************************************************)
ThreadStep(t) ==
    Acquire(t) \/ Body(t) \/ CopyRead(t) \/ CopyCheck(t) \/ CopyInsert(t)

NextLock ==
    \/ \E t \in Threads, i \in DOMAIN LockCalls : Start(t, i)
    \/ \E t \in Threads : Acquire(t)
    \/ \E t \in Threads : Body(t)
    \/ \E t \in Threads : CopyRead(t)
    \/ \E t \in Threads : CopyCheck(t)
    \/ \E t \in Threads : CopyInsert(t)

SpecLock == Init /\ [][NextLock]_vars

SpecLockFair == SpecLock /\ \A t \in Threads : WF_vars(ThreadStep(t))

(***************************************************************************)
(* The claims.                                                             *)
(***************************************************************************)
SrcOf(l) == l.args[1]
DestOf(l) == l.args[2]
IdOf(l) == [container |-> l.args[1], object |-> l.args[2]]

\* The objects a call may create, replace or remove.
TargetsOf(l) ==
    CASE l.op \in {"put_object_data", "delete_object"} -> {IdOf(l)}
      [] l.op = "delete_objects" ->
            {[container |-> l.args[1], object |-> l.args[2][i]] : i \in DOMAIN l.args[2]}
      [] l.op \in {"create_container", "delete_container", "clear_container"} ->
            {id \in ObjectIds : id.container = l.args[1]}
      [] l.op = "copy_object" -> {DestOf(l)}
      [] OTHER -> {}

\* C1: put_object_data(c,o,d) succeeds exactly when container c exists; a
\* full read (no range) of (c,o) then returns exactly d, the empty sequence
\* included, and every call that does not target (c,o) leaves the bytes a
\* full read of (c,o) returns as they were.
C1_PutThenGet ==
    [][ /\ last'.op = "put_object_data" =>
              /\ IsOk(last'.res) <=> last'.args[1] \in DOMAIN containers
              /\ IsOk(last'.res) =>
                    \A b \in Builds :
                        LET g == get_object_data(containers', last'.args[1],
                                                 last'.args[2], None, None, b).res
                        IN  IsOk(g) /\ g.val = last'.args[3]
        /\ \A id \in ObjectIds \ TargetsOf(last') :
              Bytes(containers', id) = Bytes(containers, id) ]_vars

C1_Witness ==
    /\ last.op = "put_object_data" /\ IsOk(last.res)
    /\ last.args[3] = <<>>
    /\ Bytes(containers, IdOf(last)) = Some(<<>>)

\* C2: on a stored object of size > 0, get_object_data(c,o,s,e) fails with
\* InvalidRange{s,e} if s > e or s >= size, and otherwise returns the bytes
\* at offsets s through min(e, size-1).
C2_RangeRead ==
    (/\ last.op = "get_object_data"
     /\ last.args[3] # None /\ last.args[4] # None
     /\ HasObject(containers, IdOf(last))
     /\ Len(DataOf(containers, IdOf(last))) > 0)
    => LET s == last.args[3][1]
           e == last.args[4][1]
           data == DataOf(containers, IdOf(last))
           size == Len(data)
       IN  IF s > e \/ s >= size
           THEN last.res.kind = "InvalidRange" /\ last.res.val = <<s, e>>
           ELSE IsOk(last.res) /\ last.res.val = SubSeq(data, s + 1, Min(e, size - 1) + 1)

\* C3: a write_data call that finds the OutgoingValue unfinished returns
\* InvalidOperation at once, whatever the buffer holds, and leaves the
\* engine's containers as they were.
C3_UnfinishedRejected ==
    [][ (wd' # wd /\ wd'.call = "write_data" /\ wd'.unfinishedAtCall) =>
            /\ wd'.pc = "idle"
            /\ last'.op = "write_data" /\ last'.res = InvalidOperation
            /\ containers' = containers ]_vars

C3_Witness ==
    /\ last.op = "write_data" /\ last.res = InvalidOperation
    /\ wd.unfinishedAtCall
    /\ ~ov.finished /\ ov.data # <<>>
    /\ "c1" \in DOMAIN containers

\* C4: once finish() has returned success the bytes of the buffer never
\* change again.
C4_FrozenAfterFinish == [][ ov.finished => ov'.data = ov.data ]_vars

\* C5: the finished flag starts false, only a successful finish() sets it,
\* nothing resets it, and every finish(), write_body() or write() that
\* starts while it is true returns InvalidOperation and changes nothing.
C5_FinishedOneWay ==
    /\ ~ov.finished
    /\ [][ /\ ov.finished => ov'.finished
           /\ ov'.finished # ov.finished => (last'.op = "finish" /\ IsOk(last'.res))
           /\ (last'.op = "finish" /\ IsOk(last'.res)) => (~ov.finished /\ ov'.finished)
           /\ (ov.finished /\ last'.op \in {"finish", "write_body"}) =>
                  (last'.res = InvalidOperation /\ wr' = wr /\ ov' = ov)
           /\ \A w \in Writers :
                 (ov.finished /\ wr[w].pc = "open"
                    /\ last'.op \in {"write", "write.check"} /\ last'.args[1] = w) =>
                    (last'.op = "write" /\ last'.res = InvalidOperation
                       /\ wr' = wr /\ ov' = ov) ]_vars

C5_Witness ==
    /\ ov.finished
    /\ last.op = "write" /\ last.res = InvalidOperation
    /\ ov.data # <<>>

\* C6: get_data() fails with InvalidOperation while the buffer is not
\* finished; after finish() it returns the concatenation, in call order, of
\* the chunks of the write() calls that had returned Ok when finish() did.
C6_GetDataIsWrittenAtFinish ==
    /\ (wd.call = "get_data" /\ wd.pc = "idle" /\ last.op = "get_data") =>
          (wd.unfinishedAtCall <=> last.res = InvalidOperation)
    /\ (last.op = "get_data" /\ IsOk(last.res)) =>
          (hist.atFinish # None /\ last.res.val = hist.atFinish[1])

\* C7: copy_object(src,dest) succeeds exactly when the source object and the
\* destination container exist; afterwards src holds the bytes it held and
\* dest holds exactly those bytes, whatever was stored under dest before.
C7_CopyKeepsSource ==
    [][ last'.op = "copy_object" =>
          /\ IsOk(last'.res) <=>
                (/\ HasObject(containers, SrcOf(last'))
                 /\ DestOf(last').container \in DOMAIN containers)
          /\ IsOk(last'.res) =>
                /\ Bytes(containers, SrcOf(last')) # None
                /\ Bytes(containers', SrcOf(last')) = Bytes(containers, SrcOf(last'))
                /\ Bytes(containers', DestOf(last')) = Bytes(containers, SrcOf(last')) ]_vars

C7_Witness ==
    /\ last.op = "copy_object" /\ IsOk(last.res)
    /\ SrcOf(last).container # DestOf(last).container
    /\ last.old[2] # None /\ last.old[2] # last.old[1]
    /\ Bytes(containers, DestOf(last)) = last.old[1]
    /\ Bytes(containers, SrcOf(last)) = last.old[1]

\* C8: when move_object(src,dest) with dest # src has returned success and
\* no other writer ran between its two steps, the source object is absent
\* and dest holds exactly the bytes the source held before the call.
C8_MoveIsDestructive ==
    (mv.pc = "done" /\ IsOk(mv.res) /\ mv.src # mv.dest /\ ~mv.interfered) =>
        /\ mv.orig # None
        /\ ~HasObject(containers, mv.src)
        /\ Bytes(containers, mv.dest) = mv.orig

C8_Witness ==
    /\ mv.pc = "done" /\ IsOk(mv.res) /\ ~mv.interfered
    /\ mv.src.container # mv.dest.container
    /\ mv.orig = Some(<<7, 8>>)
    /\ Bytes(containers, mv.dest) = Some(<<7, 8>>)

\* C9: copy_object and move_object whose destination container does not
\* exist fail and leave the containers as they were; with the source object
\* present the error is ContainerNotFound naming the destination container.
C9_MissingDestContainer ==
    [][ (/\ last'.op \in {"copy_object", "move_object", "move_object.copy"}
         /\ last'.op = "move_object" => mv'.step = "copy"
         /\ DestOf(last').container \notin DOMAIN containers) =>
            /\ last'.op \in {"copy_object", "move_object"}
            /\ ~IsOk(last'.res)
            /\ containers' = containers
            /\ HasObject(containers, SrcOf(last')) =>
                  /\ last'.res.kind = "ContainerNotFound"
                  /\ last'.res.val = DestOf(last').container
                  /\ HasObject(containers', SrcOf(last'))
                  /\ ~HasObject(containers', DestOf(last')) ]_vars

C9_Witness ==
    /\ last.op = "move_object" /\ mv.pc = "done" /\ mv.step = "copy"
    /\ last.res.kind = "ContainerNotFound"
    /\ last.res.val = DestOf(last).container
    /\ DestOf(last).container \notin DOMAIN containers
    /\ Bytes(containers, SrcOf(last)) = Some(<<7, 8>>)

\* C10 as stated: when move_object returns an error from its delete step
\* after its copy step succeeded, the state holds both the source object and
\* the destination copy.
C10_BothPresentAfterFailedDelete ==
    (mv.pc = "done" /\ mv.step = "delete" /\ ~IsOk(mv.res)) =>
        (HasObject(containers, mv.src) /\ HasObject(containers, mv.dest))

\* C10 amended: the delete step of move_object fails only with
\* ContainerNotFound naming the source container, and then the source
\* container, and with it the source object, is absent.
C10_FailedDeleteMeansSourceGone ==
    (mv.pc = "done" /\ mv.step = "delete" /\ ~IsOk(mv.res)) =>
        /\ mv.res.kind = "ContainerNotFound"
        /\ mv.res.val = mv.src.container
        /\ mv.src.container \notin DOMAIN containers
        /\ ~HasObject(containers, mv.src)
        /\ mv.interfered

C10_Witness ==
    /\ mv.pc = "done" /\ mv.step = "delete" /\ ~IsOk(mv.res)
    /\ mv.src.container # mv.dest.container
    /\ HasObject(containers, mv.dest)

(***************************************************************************)
(* Claims about the engine under its lock.                                 *)
(***************************************************************************)
HoldsLock(t) == th[t].pc \in {"locked", "cloned", "checked"}
InCopy(t) == HoldsLock(t) /\ OpOf(t) = "copy_object"
MutatingOps == {"create_container", "delete_container", "put_object_data",
                "delete_object", "delete_objects", "clear_container", "copy_object"}
TypedResults == {"Ok", "Ok(bool)", "Ok(metadata)", "Ok(names)",
                 "ContainerNotFound", "ContainerAlreadyExists", "ObjectNotFound",
                 "ContainerNotEmpty", "InvalidRange"}

\* C11: while a thread is inside copy_object, from the grant of its guard to
\* its return, no other thread takes a step on the store (the others only
\* queue for the lock) and the store does not change; its return changes the
\* store exactly as copy_object applied to the store of that instant does,
\* so the bytes inserted under dest are the bytes src holds at that instant.
C11_CopyAtomic ==
    [][ \A t \in Threads : InCopy(t) =>
          /\ \A u \in Threads \ {t} :
                \/ th'[u].pc = th[u].pc
                \/ th[u].pc \in {"idle", "returned"} /\ th'[u].pc = "wait"
          /\ InCopy(t)' => containers' = containers
          /\ ~InCopy(t)' =>
                \E ts \in MoveTimestamps :
                   LET c == copy_object(containers, CallOf(t).args[1],
                                        CallOf(t).args[2], ts)
                   IN  /\ containers' = c.st
                       /\ th'[t].pc = "returned" => th'[t].res = c.res
                       /\ th'[t].pc # "returned" => IsOk(c.res)
                       /\ IsOk(c.res) =>
                             /\ th[t].local # None
                             /\ Bytes(containers, CallOf(t).args[1])
                                   = Some(th[t].local[1].data)
                             /\ Bytes(containers', CallOf(t).args[2])
                                   = Some(th[t].local[1].data) ]_vars

C11_Witness ==
    \E t \in Threads, u \in Threads :
        /\ th[t].pc = "returned" /\ CallOf(t).op = "copy_object" /\ IsOk(th[t].res)
        /\ th[u].pc = "wait" /\ CallOf(u).op = "put_object_data"
        /\ Bytes(containers, CallOf(t).args[2]) = Some(<<7>>)
        /\ Bytes(containers, CallOf(t).args[1]) = Some(<<7>>)

\* C12: the threads that hold the engine lock are those between the grant
\* of their guard and their return; while a mutating operation holds it no
\* other thread does, and a call of a mutating operation never held it
\* together with another call; read-only operations do hold it together.
C12_WriterExcludes ==
    /\ \A t \in Threads : HoldsLock(t) <=> t \in Holders
    /\ \A t \in Threads :
          (HoldsLock(t) /\ OpOf(t) \in MutatingOps) =>
              /\ t \in lock.w
              /\ \A u \in Threads \ {t} : ~HoldsLock(u)
    /\ \A t \in Threads :
          (th[t].call # 0 /\ th[t].overlapped) => OpOf(t) \notin MutatingOps

C12_Witness ==
    \E t \in Threads, u \in Threads :
        /\ HoldsLock(t) /\ CallOf(t).op = "put_object_data"
        /\ th[u].pc = "returned" /\ th[u].overlapped
        /\ CallOf(u).op = "get_object_data"

EngineErrors == {"ContainerNotFound", "ContainerAlreadyExists", "ObjectNotFound",
                 "ContainerNotEmpty", "InvalidRange"}

\* C14: create_container(n) succeeds exactly when no container n exists, and
\* then n exists with its name as metadata and no objects, the other
\* containers untouched; otherwise it fails with ContainerAlreadyExists(n)
\* and the store, the existing container included, is as it was.
C14_CreateContainer ==
    [][ last'.op = "create_container" =>
          LET n == last'.args[1] IN
          /\ IsOk(last'.res) <=> n \notin DOMAIN containers
          /\ IsOk(last'.res) =>
                /\ DOMAIN containers' = DOMAIN containers \cup {n}
                /\ containers'[n].objects = EmptyMap
                /\ containers'[n].metadata.name = n
                /\ \A c \in DOMAIN containers : containers'[c] = containers[c]
          /\ ~IsOk(last'.res) =>
                /\ last'.res.kind = "ContainerAlreadyExists"
                /\ last'.res.val = n
                /\ containers' = containers ]_vars

C14_Witness ==
    /\ last.op = "create_container"
    /\ last.res.kind = "ContainerAlreadyExists"
    /\ DOMAIN containers[last.args[1]].objects = ObjectNames
    /\ containers[last.args[1]].metadata.created_at = 2

\* C15: delete_container(n) fails with ContainerNotFound(n) when n is
\* absent and with ContainerNotEmpty(n) when n holds an object, the store
\* unchanged in both cases; otherwise it succeeds and removes n alone.
C15_DeleteContainer ==
    [][ last'.op = "delete_container" =>
          LET n == last'.args[1] IN
          IF n \notin DOMAIN containers
          THEN /\ last'.res.kind = "ContainerNotFound" /\ last'.res.val = n
               /\ containers' = containers
          ELSE IF DOMAIN containers[n].objects # {}
          THEN /\ last'.res.kind = "ContainerNotEmpty" /\ last'.res.val = n
               /\ containers' = containers
          ELSE /\ IsOk(last'.res)
               /\ DOMAIN containers' = DOMAIN containers \ {n}
               /\ \A c \in DOMAIN containers' : containers'[c] = containers[c] ]_vars

C15_Witness ==
    /\ last.op = "delete_container"
    /\ last.res.kind = "ContainerNotEmpty"
    /\ Bytes(containers, [container |-> last.args[1], object |-> <<2>>]) = Some(<<>>)
    /\ DOMAIN containers = ContainerNames

\* C16: delete_object(c,o) fails, with ContainerNotFound(c) and the store
\* unchanged, exactly when c is absent; otherwise it succeeds whether or not
\* o exists, o is absent afterwards and everything else is as it was, and a
\* second delete_object(c,o) succeeds and changes nothing.
C16_DeleteIdempotent ==
    [][ last'.op = "delete_object" =>
          LET c == last'.args[1]
              o == last'.args[2]
              again == delete_object(containers', c, o)
          IN  IF c \notin DOMAIN containers
              THEN /\ last'.res.kind = "ContainerNotFound" /\ last'.res.val = c
                   /\ containers' = containers
              ELSE /\ IsOk(last'.res)
                   /\ ~HasObject(containers', IdOf(last'))
                   /\ DOMAIN containers' = DOMAIN containers
                   /\ containers'[c].metadata = containers[c].metadata
                   /\ \A x \in DOMAIN containers \ {c} : containers'[x] = containers[x]
                   /\ DOMAIN containers'[c].objects = DOMAIN containers[c].objects \ {o}
                   /\ \A x \in DOMAIN containers'[c].objects :
                         containers'[c].objects[x] = containers[c].objects[x]
                   /\ IsOk(again.res) /\ again.st = containers' ]_vars

C16_Witness ==
    /\ last.op = "delete_object" /\ IsOk(last.res)
    /\ last.old = <<None>>
    /\ DOMAIN containers[last.args[1]].objects # {}

\* C17: delete_objects(c,names) on an existing container succeeds for every
\* list of names, missing and repeated ones included; afterwards no listed
\* name is in c, the objects of c that are not listed and everything else
\* are as they were.  On a missing container it fails with
\* ContainerNotFound(c) and changes nothing.
C17_DeleteObjects ==
    [][ last'.op = "delete_objects" =>
          LET c == last'.args[1]
              listed == {last'.args[2][i] : i \in DOMAIN last'.args[2]}
          IN  IF c \notin DOMAIN containers
              THEN /\ last'.res.kind = "ContainerNotFound" /\ last'.res.val = c
                   /\ containers' = containers
              ELSE /\ IsOk(last'.res)
                   /\ DOMAIN containers' = DOMAIN containers
                   /\ containers'[c].metadata = containers[c].metadata
                   /\ \A x \in DOMAIN containers \ {c} : containers'[x] = containers[x]
                   /\ DOMAIN containers'[c].objects = DOMAIN containers[c].objects \ listed
                   /\ \A x \in DOMAIN containers'[c].objects :
                         containers'[c].objects[x] = containers[c].objects[x] ]_vars

C17_Witness ==
    /\ last.op = "delete_objects" /\ IsOk(last.res)
    /\ last.args[2] = <<<<2>>, <<2>>>>
    /\ Bytes(containers, [container |-> last.args[1], object |-> <<1>>]) = Some(<<7, 8>>)

\* C18: a call of an engine operation other than move_object that returns
\* an error returns one of the five typed errors and leaves the containers
\* and their objects exactly as they were.
C18_ErrorsChangeNothing ==
    [][ ~IsOk(last'.res) =>
          /\ last'.res.kind \in EngineErrors
          /\ containers' = containers ]_vars

C18_Witness ==
    /\ last.op = "get_object_data" /\ last.res.kind = "InvalidRange"
    /\ Bytes(containers, IdOf(last)) = Some(<<7, 8>>)

\* C19: get_object_data with both bounds given, on a stored object of any
\* length, returns a byte sequence or InvalidRange: it never panics.
C19_RangedReadNeverAborts ==
    (/\ last.op = "get_object_data"
     /\ last.args[3] # None /\ last.args[4] # None
     /\ HasObject(containers, IdOf(last)))
    => last.res.kind \in {"Ok", "InvalidRange"}

\* a comes before b in lexicographic order: at the first position where they
\* differ a has the smaller character, or a is a proper prefix of b.
LexBefore(a, b) ==
    \E k \in 1..(Len(b)) :
        /\ \A i \in 1..(k - 1) : i <= Len(a) /\ a[i] = b[i]
        /\ Len(a) = k - 1 \/ (Len(a) >= k /\ a[k] < b[k])

\* C20: list_objects(c) on an existing container returns the names of the
\* objects stored in c, each exactly once, in ascending lexicographic order;
\* on a missing container it fails with ContainerNotFound(c).
C20_ListSorted ==
    last.op = "list_objects" =>
        LET c == last.args[1] IN
        IF c \notin DOMAIN containers
        THEN last.res.kind = "ContainerNotFound" /\ last.res.val = c
        ELSE /\ last.res.kind = "Ok(names)"
             /\ {last.res.val[i] : i \in DOMAIN last.res.val} = DOMAIN containers[c].objects
             /\ Len(last.res.val) = Cardinality(DOMAIN containers[c].objects)
             /\ \A i, j \in DOMAIN last.res.val :
                   i < j => LexBefore(last.res.val[i], last.res.val[j])

C20_Witness ==
    /\ last.op = "list_objects"
    /\ last.res.kind = "Ok(names)"
    /\ last.res.val = <<<<1>>, <<1, 2>>, <<2>>>>

(***************************************************************************)
(* The listing cursor.                                                     *)
(***************************************************************************)
SetOf(seq) == {seq[i] : i \in DOMAIN seq}

\* C21: a cursor made by Container::list_objects holds exactly the names its
\* container held when it was made, each once; no later call of the engine
\* on that container (put, delete, clear, copy, move), interleaved with reads
\* of the cursor, changes its items or their number, and the reads up to the
\* end have served exactly those names.
C21_CursorKeepsItsSnapshot ==
    /\ [](cur.made => /\ SetOf(cur.s.objects) = cur.snap
                      /\ Len(cur.s.objects) = Cardinality(cur.snap))
    /\ [](cur.made /\ cur.page # -1 /\ cur.s.position = Len(cur.s.objects)
            => SetOf(cur.acc) = cur.snap /\ Len(cur.acc) = Cardinality(cur.snap))
    /\ [][cur.made /\ last'.op # "Container::list_objects"
            => cur'.s.objects = cur.s.objects]_vars

\* A cursor over three names read to its end after its container lost one.
C21_Witness ==
    /\ cur.made /\ cur.from = "c1" /\ Len(cur.s.objects) = 3
    /\ "c1" \in DOMAIN containers
    /\ Cardinality(DOMAIN containers["c1"].objects) = 2
    /\ cur.s.position = 3 /\ cur.ops = 2
    /\ last.op = "read_stream_object_names"

\* C22: a read of n names at position p of a cursor over total names returns
\* the names at [p, min(p + n, total)) and moves the cursor to
\* min(p + n, total); its end flag is true exactly when the cursor is at
\* total afterwards; with nothing left it returns no name and the flag true.
C22_ReadServesNextPage ==
    [][last'.op = "read_stream_object_names" =>
         LET n == last'.args[1]
             p == cur.s.position
             total == Len(cur.s.objects)
             q == Min(p + n, total)
         IN  /\ last'.res.kind = "Ok(batch)"
             /\ last'.res.val.items = Slice(cur.s.objects, p, q)
             /\ cur'.s.position = q
             /\ cur'.s.objects = cur.s.objects
             /\ last'.res.val.end = (cur'.s.position = total)
             /\ p = total => last'.res.val.items = <<>> /\ last'.res.val.end]_vars

\* The last page of three names read by pages of two: one name, and the end.
C22_Witness ==
    /\ last.op = "read_stream_object_names" /\ last.args = <<2>>
    /\ last.res.kind = "Ok(batch)"
    /\ Len(last.res.val.items) = 1 /\ last.res.val.end
    /\ Len(cur.s.objects) = 3 /\ cur.s.position = 3

\* The last read of the cursor returned the end flag.
Ended == last.res.kind = "Ok(batch)" /\ last.res.val.end

\* C23: reading a fresh cursor by pages of one length n >= 1, the batches
\* read so far are, in order, the names before the cursor, none repeated and
\* none left out; once a read returns the end flag they are the whole sorted
\* snapshot, which is what one read of total names from position 0 returns.
C23_PagesConcatenateToSnapshot ==
    cur.made /\ cur.page >= 1 =>
        /\ cur.acc = Slice(cur.s.objects, 0, cur.s.position)
        /\ Ended =>
             /\ cur.acc = cur.s.objects
             /\ SetOf(cur.acc) = cur.snap /\ Len(cur.acc) = Cardinality(cur.snap)
             /\ \A i, j \in DOMAIN cur.acc : i < j => LexLess(cur.acc[i], cur.acc[j])
             /\ cur.acc = read_stream_object_names([cur.s EXCEPT !.position = 0],
                                                   Len(cur.s.objects)).res.val.items

\* Three names given out of order, read to the end by pages of two.
C23_Witness ==
    /\ cur.made /\ cur.page = 2 /\ Ended
    /\ cur.acc = <<<<1>>, <<1, 2>>, <<2>>>>
    /\ last.res.val.items = <<<<2>>>>

\* C24: a skip of n moves the cursor forward by min(n, remaining) and returns
\* that number and whether the cursor is at the end afterwards; on a fresh
\* cursor a skip of n followed by a read of k returns what a read of n + k
\* returns from index n on.
C24_SkipAdvances ==
    /\ [][last'.op = "skip_stream_object_names" =>
            LET n == last'.args[1]
                remaining == Len(cur.s.objects) - cur.s.position
            IN  /\ last'.res.kind = "Ok(skipped)"
                /\ last'.res.val.n = Min(n, remaining)
                /\ cur'.s.position = cur.s.position + Min(n, remaining)
                /\ cur'.s.objects = cur.s.objects
                /\ last'.res.val.end = (cur'.s.position = Len(cur.s.objects))]_vars
    /\ [][last'.op = "read_stream_object_names" /\ cur.ops = 1 /\ cur.first # None =>
            LET n == cur.first[1]
                k == last'.args[1]
                whole == read_stream_object_names([cur.s EXCEPT !.position = 0],
                                                  n + k).res.val.items
            IN  /\ last'.res.kind = "Ok(batch)"
                /\ last'.res.val.items = SubSeq(whole, n + 1, Len(whole))]_vars

\* A skip of one then a read of one on a fresh cursor over three names.
C24_Witness ==
    /\ cur.made /\ cur.first = Some(1) /\ cur.ops = 2
    /\ last.op = "read_stream_object_names" /\ last.args = <<1>>
    /\ last.res.kind = "Ok(batch)" /\ last.res.val.items = <<<<1, 2>>>>
    /\ cur.s.position = 2

(***************************************************************************)
(* Handles.                                                                *)
(***************************************************************************)
\* What a read through a handle of container c must return after the call
\* w, no call having changed the engine since: the object written is there
\* with the bytes and the size written, the objects deleted or cleared are
\* not.
Reflects(w, op, args, res, listed) ==
    LET hit == w.op = "Container::clear" \/ args[2] \in SetOf(w.names) IN
    /\ op = "Container::has_object" /\ hit
         => res = OkBool(w.op = "Container::write_data")
    /\ op = "Container::object_info" /\ hit
         => IF w.op = "Container::write_data"
            THEN /\ res.kind = "Ok(metadata)"
                 /\ res.val.size = Len(w.d)
                 /\ res.val.name = args[2]
                 /\ res.val.container = w.c
            ELSE res = Err("ObjectNotFound", args[2])
    /\ op = "Container::get_data" /\ hit
         => IF w.op = "Container::write_data"
            THEN args[3] = 0 /\ args[4] = Len(w.d) - 1 => res = Ok(w.d)
            ELSE res = Err("ObjectNotFound", args[2])
    /\ op = "Container::list_objects"
         => /\ res = Ok(Unit)
            /\ w.op = "Container::write_data" => w.names[1] \in SetOf(listed)
            /\ w.op = "Container::clear" => listed = <<>>
            /\ w.op \in {"Container::delete_object", "Container::delete_objects"}
                 => SetOf(w.names) \cap SetOf(listed) = {}

HandleReads == {"Container::has_object", "Container::get_data",
                "Container::object_info"}

\* C25: a handle holds no state of the container.  No call through a handle
\* changes what a handle is bound to; a read through a handle returns what
\* the engine returns for the handle's name; and after a call through one
\* handle has changed the container, every read through any handle bound to
\* the same name (has_object, get_data, object_info, list_objects) reflects
\* that change, until the next change.
C25_HandlesShareTheEngine ==
    /\ [][hd'.bound # hd.bound
            => last'.op \in {"Blobstore::create_container", "Blobstore::get_container",
                             "Container::clone"}]_vars
    /\ [][last'.op \in HandleReads /\ hd.wrote.op # "none"
            /\ hd.bound[last'.args[1]] = hd.wrote.c
            => /\ containers' = containers /\ hd' = hd
               /\ Reflects(hd.wrote, last'.op, last'.args, last'.res, <<>>)]_vars
    /\ [][last'.op = "Container::list_objects" /\ hd.wrote.op # "none"
            /\ last'.args[1] = hd.wrote.c
            => /\ containers' = containers /\ hd' = hd
               /\ Reflects(hd.wrote, last'.op, last'.args, last'.res,
                           cur'.s.objects)]_vars

\* h1 wrote <<7, 8>> under <<1>>; h2, bound to the same name, reads it whole.
C25_Witness ==
    /\ hd.bound["h1"] = "c1" /\ hd.bound["h2"] = "c1"
    /\ hd.wrote.op = "Container::write_data" /\ hd.wrote.d = <<7, 8>>
    /\ last.op = "Container::get_data" /\ last.args = <<"h2", <<1>>, 0, 1>>
    /\ hd.wrote.names = <<<<1>>>>
    /\ last.res = Ok(<<7, 8>>)

(***************************************************************************)
(* Stored objects.                                                         *)
(***************************************************************************)
\* C26: every stored object's metadata has the length of its bytes as size,
\* the key it is stored under as name and the name of the container that
\* holds it as container, the objects made by copy_object and move_object
\* included.
C26_MetadataMatchesObject ==
    \A c \in DOMAIN containers : \A o \in DOMAIN containers[c].objects :
        LET object == containers[c].objects[o] IN
        /\ object.metadata.size = Len(object.data)
        /\ object.metadata.name = o
        /\ object.metadata.container = c

\* An object of two bytes moved to another container.
C26_Witness ==
    /\ last.op = "move_object" /\ IsOk(last.res) /\ mv.step = "delete"
    /\ mv.src.container # mv.dest.container
    /\ HasObject(containers, mv.dest)
    /\ containers[mv.dest.container].objects[mv.dest.object].metadata.size = 2
    /\ ~HasObject(containers, mv.src)

\* C27: clear_container(c) fails with ContainerNotFound, changing nothing,
\* when c does not exist; otherwise it succeeds and leaves c in existence,
\* with the metadata it had and no object, every other container as it was,
\* so that a delete_container(c) that follows at once succeeds.
C27_ClearKeepsContainer ==
    /\ [][last'.op = "clear_container" =>
            LET c == last'.args[1] IN
            IF c \notin DOMAIN containers
            THEN last'.res = Err("ContainerNotFound", c) /\ containers' = containers
            ELSE /\ last'.res = Ok(Unit)
                 /\ DOMAIN containers' = DOMAIN containers
                 /\ containers'[c].metadata = containers[c].metadata
                 /\ containers'[c].objects = EmptyMap
                 /\ \A x \in DOMAIN containers \ {c} : containers'[x] = containers[x]
                 /\ delete_container(containers', c).res = Ok(Unit)
                 /\ c \notin DOMAIN delete_container(containers', c).st]_vars
    /\ [][/\ last.op = "clear_container" /\ IsOk(last.res)
          /\ last'.op = "delete_container" /\ last'.args = last.args
          => IsOk(last'.res) /\ last.args[1] \notin DOMAIN containers']_vars

\* A container that held an object, cleared: it is there and empty.
C27_Witness ==
    /\ last.op = "clear_container" /\ last.res = Ok(Unit) /\ last.old # <<>>
    /\ last.args[1] \in DOMAIN containers
    /\ containers[last.args[1]].objects = EmptyMap

(***************************************************************************)
(* The staged-read cursor.                                                 *)
(***************************************************************************)
\* C28: for every byte sequence and every chunk size k >= 1 the stream is
\* read with from its start: the chunks read() has returned are, in order,
\* the bytes before the position, and all the bytes once read() signals the
\* end; each chunk returned has between 1 and k bytes, and read() signals the
\* end only at the end.  Whatever is called, the position never decreases and
\* never passes the size, and is_end() is true exactly when the position is
\* the size.
C28_ChunksConcatenateToBytes ==
    /\ [](inc.made /\ inc.k >= 1 =>
            /\ inc.acc = Slice(inc.s.data, 0, inc.s.position)
            /\ last.res = OkChunk(None) => inc.acc = inc.s.data)
    /\ [][last'.op = "IncomingValueStream::read" /\ inc.s.chunk_size >= 1
            /\ inc.k \in {-2, inc.s.chunk_size} =>
            /\ last'.res.kind = "Ok(chunk)"
            /\ (last'.res.val = None) = (inc.s.position = Len(inc.s.data))
            /\ last'.res.val # None =>
                 /\ Len(last'.res.val[1]) \in 1..inc.s.chunk_size
                 /\ inc'.s.position = inc.s.position + Len(last'.res.val[1])]_vars
    /\ [][inc.made /\ last'.op # "IncomingValueStream::new"
            => inc'.s.position >= inc.s.position /\ inc'.s.data = inc.s.data]_vars
    /\ [](inc.made => inc.s.position <= Len(inc.s.data))
    /\ [][last'.op = "IncomingValueStream::is_end"
            => last'.res = OkBool(inc.s.position = Len(inc.s.data))]_vars

\* Three bytes read by chunks of two: a chunk of two, a chunk of one, the end.
C28_Witness ==
    /\ inc.made /\ inc.k = 2 /\ inc.s.data = <<7, 8, 9>>
    /\ inc.acc = <<7, 8, 9>> /\ inc.s.position = 3
    /\ last.op = "IncomingValueStream::read" /\ last.res = OkChunk(None)

(***************************************************************************)
(* The facade.                                                             *)
(***************************************************************************)
\* C29: the facade's delete_container(name), called when the container
\* exists, whatever it holds, returns Ok and the container, with the objects
\* it held, is gone when it returns; called when the container does not
\* exist it returns ContainerNotFound.
C29_FacadeDeleteRemoves ==
    last.op = "Blobstore::delete_container" =>
        IF fd.existed
        THEN last.res = Ok(Unit) /\ fd.name \notin DOMAIN containers
        ELSE last.res = Err("ContainerNotFound", fd.name)

(***************************************************************************)
(* Replacing an object.                                                    *)
(***************************************************************************)
\* C30: a put_object_data (the write_data of a finished value) on a name the
\* container already holds returns Ok and replaces the object whole: a full
\* read that follows returns the new bytes and nothing else, the metadata's
\* size is their length, the container holds the same names as before and
\* its other objects are as they were; and no call returns
\* ObjectAlreadyExists.
C30_PutReplacesWhole ==
    /\ [][/\ last'.op = "Container::write_data" /\ last'.res # InvalidOperation
          /\ HasObject(containers, [container |-> hd.bound[last'.args[1]],
                                    object |-> last'.args[2]])
          => LET c == hd.bound[last'.args[1]]
                 o == last'.args[2]
                 data == last'.args[3]
             IN  /\ last'.res = Ok(Unit)
                 /\ get_object_data(containers', c, o, None, None, "debug").res = Ok(data)
                 /\ get_object_metadata(containers', c, o).res.val.size = Len(data)
                 /\ DOMAIN containers'[c].objects = DOMAIN containers[c].objects
                 /\ \A x \in DOMAIN containers[c].objects \ {o} :
                        containers'[c].objects[x] = containers[c].objects[x]]_vars
    /\ [](last.res.kind # "ObjectAlreadyExists")

\* <<7, 8>> written over <<7>> in a container of two objects.
C30_Witness ==
    /\ last.op = "Container::write_data" /\ last.res = Ok(Unit)
    /\ hd.wrote.op = "Container::write_data" /\ hd.wrote.had = Some(<<7>>)
    /\ hd.wrote.names = <<last.args[2]>> /\ last.args[3] = <<7, 8>>
    /\ DataOf(containers, [container |-> "c1", object |-> last.args[2]]) = <<7, 8>>
    /\ Cardinality(DOMAIN containers["c1"].objects) = 2

(***************************************************************************)
(* The largest offset.                                                     *)
(***************************************************************************)
\* C31: get_object_data with end the largest u64 and start < size returns
\* data[start..size], in every build: end + 1 does not overflow or wrap.
C31_LargestEndReadsToTheEnd ==
    (/\ last.op = "get_object_data"
     /\ last.args[3] # None /\ last.args[4] = Some(U64_MAX)
     /\ HasObject(containers, IdOf(last))
     /\ last.args[3][1] < Len(DataOf(containers, IdOf(last))))
    => LET data == DataOf(containers, IdOf(last))
       IN  last.res = Ok(Slice(data, last.args[3][1], Len(data)))

(***************************************************************************)
(* move_object, its source and destination the same, and with other        *)
(* threads.                                                                *)
(***************************************************************************)
\* C32: move_object(src, dest) with dest = src, the object existing and no
\* other writer running, returns Ok and leaves the object in place with the
\* bytes it had.
C32_MoveOntoItselfKeepsObject ==
    (mv.pc = "done" /\ mv.src = mv.dest /\ mv.orig # None /\ ~mv.interfered) =>
        /\ IsOk(mv.res)
        /\ Bytes(containers, mv.src) = mv.orig

\* C33: when a put_object_data of another thread on the source object has
\* returned Ok between the copy step and the delete step of move_object, the
\* bytes it wrote are readable at src or at dest when move_object returns
\* (stated for dest # src, the move onto itself being C32's).
C33_PutDuringMoveIsKept ==
    [][/\ mv.pc = "copied" /\ mv'.pc = "done" /\ mv.src # mv.dest
       /\ last.op = "put_object_data" /\ IsOk(last.res)
       /\ IdOf(last) = mv.src
       => \/ Bytes(containers', mv.src) = Some(last.args[3])
          \/ Bytes(containers', mv.dest) = Some(last.args[3])]_vars

\* C34: with dest # src and no other writer running, in every state from the
\* copy step of move_object to its return the bytes the source held at the
\* call are readable at src or at dest.
C34_OriginalAlwaysReadable ==
    (/\ mv.pc \in {"copied", "done"} /\ mv.orig # None
     /\ mv.src # mv.dest /\ ~mv.interfered)
    => \/ Bytes(containers, mv.src) = mv.orig
       \/ Bytes(containers, mv.dest) = mv.orig

\* Between the two steps: two bytes at the source and in the other container.
C34_Witness ==
    /\ mv.pc = "copied" /\ ~mv.interfered
    /\ mv.src.container # mv.dest.container
    /\ mv.orig = Some(<<7, 8>>)
    /\ Bytes(containers, mv.src) = mv.orig
    /\ Bytes(containers, mv.dest) = mv.orig

(***************************************************************************)
(* The facade's copy_object and move_object.                               *)
(***************************************************************************)
\* What the engine's operation of the same name returns for the call l in cs.
EngineOutcome(cs, l) ==
    IF l.op = "Blobstore::copy_object"
    THEN copy_object(cs, l.args[1], l.args[2], l.args[3])
    ELSE move_object(cs, l.args[1], l.args[2], l.args[3])

FacadePass == {"Blobstore::copy_object", "Blobstore::move_object"}

\* C35 as stated: in every state and for every src and dest the facade's
\* copy_object and move_object return what the engine's return, the same
\* error naming the same container or object included, and leave the same
\* state.
C35_FacadeSameAsEngine ==
    [][last'.op \in FacadePass =>
          /\ last'.res = EngineOutcome(containers, last').res
          /\ containers' = EngineOutcome(containers, last').st]_vars

\* C35, amended: they leave the state the engine's operations leave, and
\* return what those return whenever the destination container exists; when
\* it does not they return ContainerNotFound naming the destination
\* container, where the engine's return an error too, which names the source
\* container or object if that is missing.
C35_FacadeSameUnlessDestMissing ==
    [][last'.op \in FacadePass =>
          LET e == EngineOutcome(containers, last')
              dest == last'.args[2]
          IN  /\ containers' = e.st
              /\ IF dest.container \in DOMAIN containers
                 THEN last'.res = e.res
                 ELSE /\ last'.res = Err("ContainerNotFound", dest.container)
                      /\ ~IsOk(e.res) /\ e.st = containers]_vars

\* The source object and the destination container both missing: the facade
\* names the destination container, the engine the source object.
C35_Witness ==
    /\ last.op = "Blobstore::copy_object"
    /\ last.args[1].container \in DOMAIN containers
    /\ last.args[2].container \notin DOMAIN containers
    /\ last.res = Err("ContainerNotFound", last.args[2].container)
    /\ EngineOutcome(containers, last).res = Err("ObjectNotFound", last.args[1].object)

(***************************************************************************)
(* The facade's delete_container returning an error.                       *)
(***************************************************************************)
\* C36: when the facade's delete_container returns an error, whatever other
\* threads wrote meanwhile, the call itself has changed nothing: the
\* container, if it still exists, holds every object it held when the call
\* began, with the same bytes (what other threads put in the meantime may
\* have been added).
C36_FacadeDeleteErrorChangesNothing ==
    (/\ last.op = "Blobstore::delete_container" /\ ~IsOk(last.res)
     /\ fd.pc = "done" /\ fd.name \in DOMAIN containers)
    => \A o \in DOMAIN fd.before :
          /\ o \in DOMAIN containers[fd.name].objects
          /\ containers[fd.name].objects[o].data = fd.before[o].data

(***************************************************************************)
(* Reading a staged-read cursor to its end.                                *)
(***************************************************************************)
\* C37: whatever the bytes and whatever chunk size set_chunk_size was given,
\* 0 included, calling read() again and again reaches a call that signals
\* the end (returns None).
C37_ReadsReachEnd ==
    inc.made ~> (last.op = "IncomingValueStream::read" /\ last.res = OkChunk(None))

(***************************************************************************)
(* Reading a listing cursor to its end.                                    *)
(***************************************************************************)
\* C38: whatever the snapshot and whatever the length n, 0 included, the
\* loop that calls read(n) until the end flag is true comes to a call that
\* returns the end flag true.
C38_ReadLoopReachesEnd ==
    cur.made ~> (/\ last.op = "read_stream_object_names"
                 /\ last.res.kind = "Ok(batch)" /\ last.res.val.end)

(***************************************************************************)
(* The listing cursor's position.                                          *)
(***************************************************************************)
\* C40: after every call on a listing cursor (read, skip,
\* read_all_remaining, the iterator's next, peek, reset, is_end) its
\* position is between 0 and total_count, so total_count - position does not
\* underflow; no call but reset makes the position smaller, and reset makes
\* it 0; is_end() is true exactly when position = total_count.
C40_PositionWithinBounds ==
    [][cur'.made =>
          /\ position(cur'.s) \in 0..total_count(cur'.s)
          /\ is_end(cur'.s) <=> (position(cur'.s) = total_count(cur'.s))
          /\ last'.op = "StreamObjectNames::is_end"
                => last'.res = OkBool(position(cur.s) = total_count(cur.s))
          /\ last'.op = "StreamObjectNames::reset" => position(cur'.s) = 0
          /\ last'.op \notin {"StreamObjectNames::reset", "StreamObjectNames::new"}
                => position(cur'.s) >= position(cur.s)]_vars

\* The iterator's next returning the last of three names, after other calls.
C40_Witness ==
    /\ cur.made /\ cur.ops = 2 /\ total_count(cur.s) = 3
    /\ last.op = "StreamObjectNames::next" /\ last.res = OkName(Some(cur.s.objects[3]))
    /\ position(cur.s) = 3 /\ is_end(cur.s)

(***************************************************************************)
(* What a write leaves alone.                                              *)
(***************************************************************************)
\* The step leaves the set of containers, every container but c, and c's
\* metadata as they were.
OthersUntouched(c) ==
    /\ DOMAIN containers' = DOMAIN containers
    /\ \A d \in DOMAIN containers : d # c => containers'[d] = containers[d]
    /\ c \in DOMAIN containers => containers'[c].metadata = containers[c].metadata

\* The step leaves every object of c but o as it was, and adds none but o.
SiblingsUntouched(c, o) ==
    c \in DOMAIN containers =>
        \A x \in (DOMAIN containers[c].objects \cup DOMAIN containers'[c].objects) \ {o} :
            /\ x \in DOMAIN containers[c].objects
            /\ x \in DOMAIN containers'[c].objects
            /\ containers'[c].objects[x] = containers[c].objects[x]

\* C39: put_object_data, delete_object, delete_objects and clear_container
\* on a container c leave every other container, metadata and objects, and
\* c's own metadata unchanged; put_object_data and delete_object leave every
\* other object of c unchanged; a copy_object that succeeds changes nothing
\* but the destination entry.
C39_WritesConfined ==
    [][/\ last'.op \in {"put_object_data", "delete_object", "delete_objects",
                        "clear_container"}
            => OthersUntouched(last'.args[1])
       /\ last'.op \in {"put_object_data", "delete_object"}
            => SiblingsUntouched(last'.args[1], last'.args[2])
       /\ last'.op = "copy_object" /\ IsOk(last'.res)
            => /\ OthersUntouched(last'.args[2].container)
               /\ SiblingsUntouched(last'.args[2].container, last'.args[2].object)]_vars

\* A put into c1 at a later time than c1 was made, c1 holding another object
\* and c2 holding objects too.
C39_Witness ==
    /\ last.op = "put_object_data" /\ IsOk(last.res)
    /\ last.args[1] = "c1" /\ last.args[2] = <<1>>
    /\ containers["c1"].objects[<<1>>].metadata.created_at
          # containers["c1"].metadata.created_at
    /\ <<2>> \in DOMAIN containers["c1"].objects
    /\ "c2" \in DOMAIN containers /\ containers["c2"].objects # EmptyMap

====
